---- MODULE Spec2Model ----
(***************************************************************************)
(* Pitch booking: the reservation / participant store (the SQL migrations) *)
(* and the clients that read and write it (booking form, booking list,     *)
(* admin page, conversational assistant).                                  *)
(***************************************************************************)
EXTENDS Integers, Sequences, FiniteSets, TLC

\* null / undefined, for text and for numbers
None == "none"
Null == -1

(***************************************************************************)
(* Bounds of the model.                                                    *)
(***************************************************************************)
\* booking rows the clients of the application ever insert (ids are never
\* reused)
MaxBookings == 2
\* booking rows ever inserted by raw store requests
MaxRawBookings == 1
\* booking rows ever inserted through the assistant
MaxChatBookings == 1
\* the last hour users name to the assistant
LastChatHour == 8
\* identities that log in to the FootballBookingExperience page
MaxExperienceUsers == 1
\* the last calendar day, counted from today, that users pick
MaxDay == 0
\* the last start hour users pick (the grid starts at 08:00)
LastPickHour == 9
\* reservations in the list handed to an isSlotAvailable call
MaxExisting == 2
\* the last start hour among the arguments of an isSlotAvailable call
LastAvailHour == 11
\* entries of a transcript that is kept whole
MaxTranscript == 13

\* calls of the slot enumeration in one behaviour
MaxCalls == 3

(***************************************************************************)
(* Identities: a user is a (name, level) pair, no credentials.             *)
(***************************************************************************)
LEVELS == {"100", "200", "300", "400", "500"}

Users ==
  { [name |-> "ann", level |-> "100"],
    [name |-> "ann", level |-> "200"],
    [name |-> "bob", level |-> "100"] }

\* the identities typed into this browser's login form
AppUsers ==
  { [name |-> "ann", level |-> "100"],
    [name |-> "ann", level |-> "200"] }

\* nobody logged in (user === null)
NoUser == [name |-> "", level |-> ""]

\* calendar dates are counted in days from today
Today == 0
Dates == Today..MaxDay

\* a time of day 'HH:00' is the number HH00; parseInt(time.split(':')[0])
\* reads the hour back
FirstHour == 8
Time(h) == h * 100
HourOf(t) == t \div 100

\* the last entry of TIME_SLOTS
LastSlotHour == 20

\* the start times the model's users pick: the first entries of TIME_SLOTS
\* and its last
PickHours == (FirstHour..LastPickHour) \cup {LastSlotHour}

VARIABLES
  bookings,      \* rows of public.bookings
  participants,  \* rows of public.booking_participants, counted per
                 \* (booking_id, player_name, player_level)
  nextId,        \* next booking id (gen_random_uuid: fresh, never reused)
  txn,           \* per client: its participant insertion inside the store
  last,          \* the store's answer to the request that completed last
  user,          \* UserProvider: the logged-in (name, level) or NoUser
  selectedDate,  \* BookingDashboard: the calendar's date
  dash,          \* useBookings(selectedDate).bookings as last fetched
  form,          \* BookingForm: startTime, duration, sessionType, maxPlayers
  now,           \* new Date(): the hour of the day and the day of the week
  isOpen,        \* AIAssistant: the panel is shown
  conversationStep,
  bookingState,  \* AIAssistant: the draft
  assistantBookings,  \* AIAssistant: bookings, as fetchBookings last set it
  isLoading,     \* AIAssistant: a write is awaited
  pending,       \* AIAssistant: the awaited write and the store's answer
  messages,      \* the conversation's transcript
  hasStartedChat,  \* FootballBookingExperience: the chat has been started
  hasGreeted,    \* the generative assistant: the greeting has been shown
  timer,         \* FootballBookingExperience: the processMessage call that
                 \* startConversation's setTimeout holds, with its closure
  availIn,       \* arguments of an isSlotAvailable call
  availOut       \* its result

storeVars == <<bookings, participants, nextId, txn, last>>
dashVars == <<user, selectedDate, dash, form>>
chatVars == <<hasStartedChat, timer, hasGreeted>>
assistVars ==
  <<now, isOpen, conversationStep, bookingState, assistantBookings, isLoading,
    pending, messages, chatVars>>
availVars == <<availIn, availOut>>
clientVars == <<dashVars, assistVars, availVars>>
vars == <<storeVars, clientVars>>

BookingIds == 1..MaxBookings
PKeys == BookingIds \X Users

(***************************************************************************)
(* public.bookings                                                         *)
(***************************************************************************)
\* duration INTEGER NOT NULL CHECK (duration IN (1, 2))
DurationCheck(row) == row.duration \in {1, 2}

\* session_type TEXT NOT NULL CHECK (session_type IN ('open', 'closed'))
SessionTypeCheck(row) == row.session_type \in {"open", "closed"}

\* CONSTRAINT max_players_for_open
MaxPlayersForOpen(row) ==
  \/ row.session_type = "closed"
  \/ /\ row.session_type = "open"
     /\ row.max_players # Null
     /\ row.max_players >= 2

BookingChecks(row) ==
  DurationCheck(row) /\ SessionTypeCheck(row) /\ MaxPlayersForOpen(row)

Row(id, u, d) ==
  [ id |-> id,
    created_by_name |-> u.name,
    created_by_level |-> u.level,
    date |-> d.date,
    start_time |-> d.start_time,
    duration |-> d.duration,
    session_type |-> d.session_type,
    max_players |-> d.max_players ]

\* INSERT INTO bookings: the row is stored iff every CHECK passes
InsertBooking(u, d) ==
  /\ IF BookingChecks(d)
       THEN /\ bookings' = bookings \cup {Row(nextId, u, d)}
            /\ nextId' = nextId + 1
            /\ last' = [op |-> "create", outcome |-> "ok"]
       ELSE /\ UNCHANGED <<bookings, nextId>>
            /\ last' = [op |-> "create", outcome |-> "check_violation"]
  /\ UNCHANGED <<participants, txn>>

\* DELETE FROM bookings WHERE id = bid; booking_participants.booking_id
\* REFERENCES bookings(id) ON DELETE CASCADE
DeleteBooking(bid) ==
  /\ bookings' = {b \in bookings : b.id # bid}
  /\ participants' = [k \in PKeys |-> IF k[1] = bid THEN 0 ELSE participants[k]]
  /\ last' = [op |-> "delete", outcome |-> "ok"]
  /\ UNCHANGED <<nextId, txn>>

(***************************************************************************)
(* public.booking_participants                                             *)
(***************************************************************************)
\* SELECT COUNT(*) FROM booking_participants WHERE booking_id = bid
RECURSIVE SumOver(_, _)
SumOver(S, bid) ==
  IF S = {} THEN 0
  ELSE LET u == CHOOSE x \in S : TRUE
       IN participants[<<bid, u>>] + SumOver(S \ {u}, bid)

ParticipantCount(bid) == SumOver(Users, bid)

Idle == [pc |-> "idle", booking_id |-> Null]

Reject(u, why) ==
  /\ txn' = [txn EXCEPT ![u] = Idle]
  /\ last' = [op |-> "join", outcome |-> why]
  /\ UNCHANGED <<bookings, participants, nextId>>

\* the limit test without the joiner's own seat
LimitExceededOffByOne(count, max) == max # Null /\ (count + 1) > max

\* the limit test of validate_player_limit on the count it read
LimitExceeded(count, max) == max # Null /\ (count + 2) > max

\* BEFORE INSERT trigger validate_player_limit: the booking's max_players and
\* session_type, then the participant count; it raises or returns NEW. Both
\* SELECTs come before the row is inserted, and other clients' statements
\* may run between the trigger and the insertion.
TriggerCheck(u, bid) ==
  /\ txn[u].pc = "idle"
  /\ LET found == {b \in bookings : b.id = bid}
     IN IF found = {}
          THEN Reject(u, "not_found")
          ELSE LET b == CHOOSE x \in found : TRUE
               IN IF b.session_type = "closed"
                    THEN Reject(u, "closed")
                    ELSE IF LimitExceeded(ParticipantCount(bid), b.max_players)
                           THEN Reject(u, "full")
                           ELSE /\ txn' = [txn EXCEPT ![u] =
                                             [pc |-> "insert", booking_id |-> bid]]
                                /\ UNCHANGED <<bookings, participants, nextId, last>>

\* a participant table without the REFERENCES clause
ForeignKeyDropped(bid) == TRUE

\* booking_id UUID NOT NULL REFERENCES public.bookings(id)
ForeignKeyHolds(bid) == \E b \in bookings : b.id = bid

\* a participant table without the UNIQUE constraint
UniqueDropped(bid, u) == TRUE

\* UNIQUE (booking_id, player_name, player_level)
UniqueHolds(bid, u) == participants[<<bid, u>>] = 0

\* the row insertion after the BEFORE INSERT trigger returned NEW
RowInsert(u) ==
  /\ txn[u].pc = "insert"
  /\ LET bid == txn[u].booking_id
     IN IF ~ForeignKeyHolds(bid)
          THEN Reject(u, "fk_violation")
          ELSE IF ~UniqueHolds(bid, u)
                 THEN Reject(u, "duplicate")
                 ELSE /\ participants' =
                           [participants EXCEPT ![<<bid, u>>] = @ + 1]
                      /\ txn' = [txn EXCEPT ![u] = Idle]
                      /\ last' = [op |-> "join", outcome |-> "ok"]
                      /\ UNCHANGED <<bookings, nextId>>

\* DELETE FROM booking_participants WHERE booking_id, player_name, player_level
DeleteParticipant(bid, u) ==
  /\ participants' = [participants EXCEPT ![<<bid, u>>] = 0]
  /\ last' = [op |-> "leave", outcome |-> "ok"]
  /\ UNCHANGED <<bookings, nextId, txn>>

(***************************************************************************)
(* Requests any client may send: the INSERT and DELETE policies are        *)
(* permissive (WITH CHECK (true); user_id is never set).                   *)
(***************************************************************************)
Draft(type, max, dur) ==
  [ date |-> Today, start_time |-> Time(FirstHour), duration |-> dur,
    session_type |-> type, max_players |-> max ]

StoreDrafts ==
  { Draft("closed", Null, 1), Draft("closed", Null, 2), Draft("closed", 2, 1),
    Draft("open", 2, 1), Draft("open", 3, 2),
    Draft("open", Null, 1), Draft("open", 1, 1),
    Draft("closed", Null, 3), Draft("closed", Null, 0),
    Draft("mixed", Null, 1) }

CreateRequest(u) ==
  /\ nextId <= MaxRawBookings
  /\ \E d \in StoreDrafts : InsertBooking(u, d)
  /\ UNCHANGED clientVars

JoinRequest(u) ==
  /\ \E bid \in BookingIds : TriggerCheck(u, bid)
  /\ UNCHANGED clientVars

\* the store goes on with an insertion that passed the trigger
InsertRequest(u) == RowInsert(u) /\ UNCHANGED clientVars

LeaveRequest(u) ==
  /\ \E bid \in BookingIds : DeleteParticipant(bid, u)
  /\ UNCHANGED clientVars

DeleteRequest(u) ==
  /\ \E bid \in BookingIds : DeleteBooking(bid)
  /\ UNCHANGED clientVars

(***************************************************************************)
(* BookingForm                                                             *)
(***************************************************************************)
\* isSlotAvailable with the slot end taken one hour after the start
IsSlotAvailableStartOnly(selected, existingBookings, time, dur) ==
  /\ selected # Null
  /\ LET slotStart == HourOf(time)
         slotEnd == slotStart + 1
     IN ~\E booking \in existingBookings :
           LET bookingStart == HourOf(booking.start_time)
               bookingEnd == bookingStart + booking.duration
           IN slotStart < bookingEnd /\ slotEnd > bookingStart

\* isSlotAvailable(time, dur) over the existingBookings prop: both branches
\* of the overlap test return false, for a closed and for an open session
isSlotAvailable(selected, existingBookings, time, dur) ==
  /\ selected # Null
  /\ LET slotStart == HourOf(time)
         slotEnd == slotStart + dur
     IN ~\E booking \in existingBookings :
           LET bookingStart == HourOf(booking.start_time)
               bookingEnd == bookingStart + booking.duration
           IN /\ slotStart < bookingEnd /\ slotEnd > bookingStart
              /\ (booking.session_type = "closed" \/ TRUE)

\* no call made
NoCall == [selectedDate |-> Null, time |-> Null, dur |-> Null, existing |-> {}]

\* arguments of a call: a candidate on the grid and a list of reservations
AvailHours == FirstHour..LastAvailHour

ExistingRows ==
  [ start_time : {Time(h) : h \in AvailHours},
    duration : {1, 2},
    session_type : {"open", "closed"} ]

RECURSIVE SubsetsUpTo(_, _)
SubsetsUpTo(S, n) ==
  IF n = 0 THEN {{}}
  ELSE LET smaller == SubsetsUpTo(S, n - 1)
       IN smaller \cup {T \cup {x} : T \in smaller, x \in S}

Calls ==
  [ selectedDate : {Null, Today},
    time : {Time(h) : h \in AvailHours},
    dur : {1, 2},
    existing : SubsetsUpTo(ExistingRows, MaxExisting) ]

CallIsSlotAvailable ==
  /\ availOut = None
  /\ availIn # NoCall
  /\ availOut' =
       IF isSlotAvailable(availIn.selectedDate, availIn.existing,
                          availIn.time, availIn.dur)
         THEN "true" ELSE "false"
  /\ UNCHANGED <<availIn, storeVars, dashVars, assistVars>>

\* the form renders again and the result is computed anew
Rerender ==
  /\ availOut # None
  /\ availOut' = None
  /\ UNCHANGED <<availIn, storeVars, dashVars, assistVars>>

(***************************************************************************)
(* The dashboard of one browser: login, calendar, booking form, booking    *)
(* list, admin page.                                                       *)
(***************************************************************************)
\* BookingWithParticipants: a booking row with its participant rows
WithParticipants(b, ps) ==
  [ id |-> b.id,
    created_by_name |-> b.created_by_name,
    created_by_level |-> b.created_by_level,
    date |-> b.date,
    start_time |-> b.start_time,
    duration |-> b.duration,
    session_type |-> b.session_type,
    max_players |-> b.max_players,
    participants |-> {p \in Users : ps[<<b.id, p>>] > 0} ]

\* the bookings query and the participants query over tables bs and ps: the
\* bookings of date d (of every date when no date is given)
Fetch(bs, ps, d) ==
  {WithParticipants(b, ps) : b \in {x \in bs : d = Null \/ x.date = d}}

\* useBookings(selectedDate).bookings, fetched now
DateView(d) == Fetch(bookings, participants, d)

\* useAllBookings / AIAssistant.fetchBookings: every booking, fetched now
AllView == Fetch(bookings, participants, Null)

EmptyForm ==
  [startTime |-> Null, duration |-> 1, sessionType |-> "closed", maxPlayers |-> 14]

\* no BookingWithParticipants (undefined)
NoBooking == [id |-> Null]

\* BookingState {}
EmptyState ==
  [ date |-> Null, time |-> Null, sessionType |-> None, maxPlayers |-> Null,
    duration |-> Null, bookingToJoin |-> NoBooking ]

NoPending == [op |-> None, outcome |-> None]

\* no deferred call is held
NoTimer == [message |-> None]

\* useState<Message[]>([]): the empty transcript, of which the last entry
\* will be kept, or every entry
NoMessages == [kept |-> "last", entries |-> <<>>]
AllMessages == [kept |-> "all", entries |-> <<>>]

\* LoginForm.handleSubmit -> login(name, level); BookingDashboard mounts with
\* today selected and its queries run
Login(u) ==
  /\ user = NoUser
  /\ user' = u
  /\ selectedDate' = Today
  /\ form' = EmptyForm
  /\ dash' = DateView(Today)
  /\ UNCHANGED <<storeVars, assistVars, availVars>>

\* logout(): the dashboard and the assistant unmount, their state is dropped
Logout ==
  /\ user # NoUser
  /\ user' = NoUser
  /\ form' = EmptyForm
  /\ dash' = {}
  /\ isOpen' = FALSE
  /\ conversationStep' = "greeting"
  /\ bookingState' = EmptyState
  /\ assistantBookings' = {}
  /\ isLoading' = FALSE
  /\ pending' = NoPending
  /\ messages' = [messages EXCEPT !.entries = <<>>]
  /\ UNCHANGED <<selectedDate, now, chatVars, storeVars, availVars>>

\* BookingCalendar onSelect: a date from today on, or none; the query key
\* changes and the queries run for the new date
SelectDate(d) ==
  /\ user # NoUser
  /\ d # selectedDate
  /\ selectedDate' = d
  /\ dash' = DateView(d)
  /\ UNCHANGED <<user, form, storeVars, assistVars, availVars>>

\* a refetch that invalidates the bookings query alone: the participants
\* shown stay those fetched before
RefetchBookingsOnly ==
  /\ user # NoUser
  /\ LET shown(b) ==
           IF \E x \in dash : x.id = b.id
             THEN (CHOOSE x \in dash : x.id = b.id).participants
             ELSE {}
     IN dash' =
          { [WithParticipants(b, participants) EXCEPT !.participants = shown(b)] :
              b \in {x \in bookings :
                       selectedDate = Null \/ x.date = selectedDate} }
  /\ UNCHANGED <<user, selectedDate, form, storeVars, assistVars, availVars>>

\* refetch(): a change notification of the realtime channel, or the queries
\* running again when the dashboard is shown again
Refetch ==
  /\ user # NoUser
  /\ dash' = DateView(selectedDate)
  /\ UNCHANGED <<user, selectedDate, form, storeVars, assistVars, availVars>>

\* BookingForm: the start times offered for the chosen duration
availableSlots ==
  {Time(h) : h \in {x \in PickHours :
     isSlotAvailable(selectedDate, dash, Time(x), form.duration)}}

FormShown == user # NoUser /\ selectedDate # Null

FormSelectStart(t) ==
  /\ FormShown
  /\ t \in availableSlots
  /\ form' = [form EXCEPT !.startTime = t]
  /\ UNCHANGED <<user, selectedDate, dash, storeVars, assistVars, availVars>>

FormSelectDuration(d) ==
  /\ FormShown
  /\ form' = [form EXCEPT !.duration = d]
  /\ UNCHANGED <<user, selectedDate, dash, storeVars, assistVars, availVars>>

FormSelectType(type) ==
  /\ FormShown
  /\ form' = [form EXCEPT !.sessionType = type]
  /\ UNCHANGED <<user, selectedDate, dash, storeVars, assistVars, availVars>>

FormSetMaxPlayers(n) ==
  /\ FormShown
  /\ form.sessionType = "open"
  /\ form' = [form EXCEPT !.maxPlayers = n]
  /\ UNCHANGED <<user, selectedDate, dash, storeVars, assistVars, availVars>>

\* BookingForm.handleSubmit: createBooking.mutate(...) and the form reset;
\* onSuccess invalidates the bookings query
FormSubmit ==
  /\ FormShown /\ form.startTime # Null
  /\ nextId <= MaxBookings
  /\ InsertBooking(user,
        [ date |-> selectedDate,
          start_time |-> form.startTime,
          duration |-> form.duration,
          session_type |-> form.sessionType,
          max_players |->
            IF form.sessionType = "open" THEN form.maxPlayers ELSE Null ])
  /\ form' = EmptyForm
  /\ dash' = IF last'.outcome = "ok"
               THEN Fetch(bookings', participants', selectedDate) ELSE dash
  /\ UNCHANGED <<user, selectedDate, assistVars, availVars>>

\* BookingList
isUserInSession(who, booking) ==
  /\ who # NoUser
  /\ \/ (booking.created_by_name = who.name
         /\ booking.created_by_level = who.level)
     \/ \E p \in booking.participants :
          p.name = who.name /\ p.level = who.level

\* a count that leaves the creator out
isSessionFullNoCreator(booking) ==
  \/ booking.session_type = "closed"
  \/ LET totalPlayers == Cardinality(booking.participants)
     IN totalPlayers >=
          (IF booking.max_players = Null THEN 0 ELSE booking.max_players)

isSessionFull(booking) ==
  \/ booking.session_type = "closed"
  \/ LET totalPlayers == Cardinality(booking.participants) + 1
     IN totalPlayers >=
          (IF booking.max_players = Null THEN 0 ELSE booking.max_players)

canJoin(who, booking) ==
  /\ booking.session_type = "open"
  /\ ~isUserInSession(who, booking)
  /\ ~isSessionFull(booking)

canLeave(who, booking) ==
  /\ who # NoUser
  /\ \E p \in booking.participants :
       p.name = who.name /\ p.level = who.level

canDelete(who, booking) ==
  /\ who # NoUser
  /\ booking.created_by_name = who.name
  /\ booking.created_by_level = who.level

\* the list is rendered for a selected date
ListShown == user # NoUser /\ selectedDate # Null

\* handleJoin, behind canJoin and disabled={joinSession.isPending}; a
\* rejection goes to onError, which leaves the queries alone
ListJoin(b) ==
  /\ ListShown /\ b \in dash
  /\ canJoin(user, b)
  /\ TriggerCheck(user, b.id)
  /\ UNCHANGED <<dashVars, assistVars, availVars>>

\* handleLeave, behind canLeave; onSuccess invalidates the queries
ListLeave(b) ==
  /\ ListShown /\ b \in dash
  /\ canLeave(user, b)
  /\ DeleteParticipant(b.id, user)
  /\ dash' = Fetch(bookings', participants', selectedDate)
  /\ UNCHANGED <<user, selectedDate, form, assistVars, availVars>>

\* handleDelete, behind canDelete; onSuccess invalidates the queries
ListDelete(b) ==
  /\ ListShown /\ b \in dash
  /\ canDelete(user, b)
  /\ DeleteBooking(b.id)
  /\ dash' = Fetch(bookings', participants', selectedDate)
  /\ UNCHANGED <<user, selectedDate, form, assistVars, availVars>>

\* Admin: the delete button of a row of useAllBookings().bookings, shown to
\* whoever is logged in. The table is the list as last fetched, so it can
\* hold any booking inserted so far, deleted or not. onSuccess invalidates
\* the admin page's queries only.
AdminDelete(bid) ==
  /\ user # NoUser
  /\ bid < nextId
  /\ DeleteBooking(bid)
  /\ UNCHANGED <<dashVars, assistVars, availVars>>

\* the store inserts the participant row of a join that passed the trigger,
\* and the client that sent it takes the answer: the assistant keeps it for
\* the code after its await, the list's joinSession invalidates the queries
\* on success
StoreInsert(u) ==
  /\ RowInsert(u)
  /\ LET assistants == u = user /\ pending.op = "join" /\ pending.outcome = None
     IN /\ pending' = IF assistants
                        THEN [pending EXCEPT !.outcome = last'.outcome]
                        ELSE pending
        /\ dash' = IF u = user /\ ~assistants /\ last'.outcome = "ok"
                     THEN Fetch(bookings', participants', selectedDate)
                     ELSE dash
  /\ UNCHANGED <<user, selectedDate, form, now, isOpen, conversationStep,
                 bookingState, assistantBookings, isLoading, messages,
                 chatVars, availVars>>

\* no participant insertion is between its trigger and its row
Settled == \A u \in Users : txn[u].pc = "idle"

FormMaxPlayers == {2}

\* one browser; a click waits for the store call before it
NextDashboard ==
  \/ \E u \in AppUsers : Settled /\ Login(u)
  \/ Settled /\ Logout
  \/ \E d \in Dates \cup {Null} : Settled /\ SelectDate(d)
  \/ Settled /\ Refetch
  \/ \E t \in {Time(h) : h \in PickHours} : Settled /\ FormSelectStart(t)
  \/ \E d \in {1, 2} : Settled /\ FormSelectDuration(d)
  \/ \E type \in {"open", "closed"} : Settled /\ FormSelectType(type)
  \/ \E n \in FormMaxPlayers : Settled /\ FormSetMaxPlayers(n)
  \/ Settled /\ FormSubmit
  \/ \E b \in dash : Settled /\ ListJoin(b)
  \/ \E b \in dash : Settled /\ ListLeave(b)
  \/ \E b \in dash : Settled /\ ListDelete(b)
  \/ \E bid \in BookingIds : Settled /\ AdminDelete(bid)
  \/ \E u \in AppUsers : StoreInsert(u)

(***************************************************************************)
(* AIAssistant: the conversation of the assistant panel.                   *)
(***************************************************************************)
\* A message, by what the handlers look for in it: the phrases it contains
\* (String.includes on the lower-cased text) and its first run of digits
\* (Null when it has no digit).
Say(words, num) == [words |-> words, num |-> num]

includes(m, phrase) == phrase \in m.words

\* the quick replies the assistant offers, and what users type for them
SayToday == Say({"today"}, Null)
SayTomorrow == Say({"tomorrow"}, Null)
SayBook(h) == Say({"book"}, h)
SayJoin(h) == Say({"join"}, h)
SayOpen == Say({"open"}, Null)
SayClosed == Say({"closed"}, Null)
SayNumber(n) == Say({}, n)
SayYesBook == Say({"yes", "book"}, Null)
SayYesJoin == Say({"yes", "join", "now"}, Null)
SayStartOver == Say({"start over"}, Null)
SayOther == Say({}, Null)
SayJoinAnother == Say({"join", "another"}, Null)
SayBye == Say({"thanks", "bye"}, Null)
SayAnotherDay == Say({"pick another", "another day", "another"}, Null)
\* typed: "yes, cancel" and "book a different day"
SayYesCancel == Say({"yes", "cancel"}, Null)
SayBookDifferentDay == Say({"book", "different day"}, Null)
\* the quick reply of a failure message: "Try again"
SayTryAgain == Say({"try again"}, Null)

ChatHours == FirstHour..LastChatHour

Inputs ==
  {SayToday} \cup {SayTomorrow : d \in Dates \cap {Today + 1}}
    \cup {SayBook(h) : h \in ChatHours} \cup {SayJoin(h) : h \in ChatHours}
    \cup {SayOpen, SayClosed, SayNumber(0), SayNumber(1), SayNumber(2)}
    \cup {SayYesBook, SayYesJoin, SayStartOver, SayOther}
    \cup {SayJoinAnother, SayBye, SayAnotherDay}
    \cup {SayYesCancel, SayBookDifferentDay, SayTryAgain}

dayMap == <<"sunday", "monday", "tuesday", "wednesday", "thursday", "friday",
            "saturday">>

\* date-fns isWeekend on a Date.getDay() value
isWeekend(day) == day \in {0, 6}

getDay(date) == (now.day + date) % 7

\* a resolution that takes today for today's own weekday name
findDateByDayNameSameDay(m) ==
  IF includes(m, "today") \/ includes(m, "now") THEN Today
  ELSE IF includes(m, "tomorrow") THEN Today + 1
  ELSE IF includes(m, "weekend")
    THEN Today + CHOOSE i \in 0..7 :
           /\ isWeekend(getDay(Today + i))
           /\ \A j \in 0..(i - 1) : ~isWeekend(getDay(Today + j))
  ELSE IF includes(m, "next week") THEN Today + 7
  ELSE LET named == {n \in 0..6 : includes(m, dayMap[n + 1])}
       IN IF named = {} THEN Null
          ELSE LET num == CHOOSE n \in named : \A k \in named : n <= k
                   daysUntil == num - getDay(Today)
               IN Today + (IF daysUntil < 0 THEN daysUntil + 7 ELSE daysUntil)

\* findDateByDayName: the date, in days from today, or Null
findDateByDayName(m) ==
  IF includes(m, "today") \/ includes(m, "now") THEN Today
  ELSE IF includes(m, "tomorrow") THEN Today + 1
  ELSE IF includes(m, "weekend")
    THEN Today + CHOOSE i \in 0..7 :
           /\ isWeekend(getDay(Today + i))
           /\ \A j \in 0..(i - 1) : ~isWeekend(getDay(Today + j))
  ELSE IF includes(m, "next week") THEN Today + 7
  ELSE LET named == {n \in 0..6 : includes(m, dayMap[n + 1])}
       IN IF named = {} THEN Null
          ELSE LET num == CHOOSE n \in named : \A k \in named : n <= k
                   daysUntil == num - getDay(Today)
               IN Today + (IF daysUntil <= 0 THEN daysUntil + 7 ELSE daysUntil)

\* format(date, 'EEEE'): the weekday's name, as a message
formatEEEE(date) == Say({dayMap[getDay(date) + 1]}, Null)

\* Array.find over a fetched list: the first match, rows of one date coming
\* back in insertion order; undefined when none matches
find(matches) ==
  IF matches = {} THEN NoBooking
  ELSE CHOOSE b \in matches : \A c \in matches : b.id <= c.id

\* (session.max_players || 10) - (session.participants.length + 1)
spotsLeft(session) ==
  (IF session.max_players = Null \/ session.max_players = 0
     THEN 10 ELSE session.max_players)
    - (Cardinality(session.participants) + 1)

GridHours == 8..19

\* getAvailableSlotsForDate: the slots in hour order, each free
\* (no openSession) or an open session with spots left
getAvailableSlotsForDate(targetDate) ==
  LET isToday == targetDate = Today
      existingBooking(hour) ==
        find({b \in assistantBookings :
                b.date = targetDate /\ b.start_time = Time(hour)})
  IN { [time |-> Time(hour), isAvailable |-> TRUE,
        openSession |-> existingBooking(hour)] :
       hour \in {h \in GridHours :
         /\ ~(isToday /\ h <= now.hours)
         /\ \/ existingBooking(h) = NoBooking
            \/ /\ existingBooking(h).session_type = "open"
               /\ spotsLeft(existingBooking(h)) > 0} }

\* setMessages([entry]): the entry takes the place of the list
replaced(list, kind) == [list EXCEPT !.entries = <<kind>>]

\* the transcript as a list of entries, each by what it is: the user's
\* entry, or the assistant's prompting, reporting the write done or reporting
\* it failed. The conversation reads nothing of it but whether it is empty,
\* so its specifications keep the last entry alone; the specifications that
\* are about the transcript keep it whole
appended(list, kind) ==
  [list EXCEPT !.entries = IF list.kept = "all" THEN Append(@, kind)
                           ELSE <<kind>>]

\* the last entry, or None
lastMessage ==
  IF messages.entries = <<>> THEN None
  ELSE messages.entries[Len(messages.entries)]

\* addUserMessage: setMessages(prev => [...prev, { role: 'user', ... }])
addUserMessage == messages' = appended(messages, "user")

\* addBotMessage: setMessages(prev => [...prev, { role: 'assistant', ... }])
addBotMessage(kind) == messages' = appended(messages, kind)

\* processMessage with a handler that awaits nothing: addUserMessage, then
\* the handler's addBotMessage
exchange(kind) == messages' = appended(appended(messages, "user"), kind)

\* a transition of the conversation that writes nothing: the user's entry,
\* then the assistant's prompt
Talk(step, state) ==
  /\ UNCHANGED <<now, isOpen, assistantBookings, isLoading, pending, chatVars>>
  /\ UNCHANGED <<storeVars, dashVars, availVars>>
  /\ conversationStep' = step
  /\ bookingState' = state
  /\ exchange("prompt")

\* the toggle button: the panel opens, fetchBookings runs, and a
\* conversation that has not started is started
OpenAssistant ==
  /\ user # NoUser /\ ~isOpen
  /\ isOpen' = TRUE
  /\ assistantBookings' = AllView
  /\ conversationStep' =
       IF conversationStep = "greeting" THEN "ask_when" ELSE conversationStep
  /\ IF conversationStep = "greeting"
       THEN addBotMessage("prompt") ELSE UNCHANGED messages
  /\ UNCHANGED <<now, bookingState, isLoading, pending, chatVars, storeVars,
                 dashVars, availVars>>

\* the X button: setIsOpen(false)
CloseAssistant ==
  /\ isOpen
  /\ isOpen' = FALSE
  /\ UNCHANGED <<now, conversationStep, bookingState, assistantBookings,
                 isLoading, pending, messages, chatVars, storeVars, dashVars,
                 availVars>>

\* sendMessage: a message is taken when the panel is shown and no write is
\* awaited
Sendable == user # NoUser /\ isOpen /\ ~isLoading

isStartOver(m) ==
  includes(m, "start over") \/ includes(m, "cancel") \/ includes(m, "reset")

isAnotherDay(m) ==
  \/ includes(m, "another day")
  \/ includes(m, "different day")
  \/ includes(m, "pick another")

\* processMessage: "start over", "cancel", "reset" -> resetConversation
StartOver(m) ==
  /\ Sendable /\ isStartOver(m)
  /\ Talk("ask_when", EmptyState)

\* processMessage: "another day", "different day", "pick another"
AnotherDay(m) ==
  /\ Sendable /\ ~isStartOver(m) /\ isAnotherDay(m)
  /\ Talk("ask_when", bookingState)

\* a switch that is reached whatever the message holds
DispatchedFirst(m, step) ==
  /\ Sendable
  /\ conversationStep = step

\* processMessage reaches the switch on conversationStep
Dispatched(m, step) ==
  /\ Sendable /\ ~isStartOver(m) /\ ~isAnotherDay(m)
  /\ conversationStep = step

\* handleWhenResponse as a function: the step and the draft it leaves
WhenResult(m) ==
  LET targetDate == findDateByDayName(m)
      unchanged == [step |-> conversationStep, state |-> bookingState]
  IN IF targetDate = Null THEN unchanged
     ELSE IF getAvailableSlotsForDate(targetDate) = {} THEN unchanged
     ELSE [ step |-> "ask_action",
            state |-> [EmptyState EXCEPT !.date = targetDate] ]

handleWhenResponse(m) ==
  /\ Dispatched(m, "ask_when")
  /\ Talk(WhenResult(m).step, WhenResult(m).state)

\* /(\d{1,2}):?(\d{2})?/: the first two digits of the first run of digits
RECURSIVE FirstTwoDigits(_)
FirstTwoDigits(n) == IF n < 100 THEN n ELSE FirstTwoDigits(n \div 10)

\* `${timeMatch[1].padStart(2, '0')}:00`, or Null
TimeToken(m) == IF m.num = Null THEN Null ELSE Time(FirstTwoDigits(m.num))

handleActionResponse(m) ==
  /\ Dispatched(m, "ask_action") \/ Dispatched(m, "show_options")
  /\ LET time == TimeToken(m)
         dateStr == bookingState.date
     IN IF includes(m, "join") /\ time # Null
          THEN LET session ==
                     find({b \in assistantBookings :
                             /\ b.date = dateStr
                             /\ b.start_time = time
                             /\ b.session_type = "open"})
               IN IF session # NoBooking
                    THEN Talk("confirm_join",
                              [bookingState EXCEPT !.time = time,
                                                   !.bookingToJoin = session])
                    ELSE Talk(conversationStep, bookingState)
        ELSE IF includes(m, "book") /\ time # Null
          THEN LET existingBooking ==
                     find({b \in assistantBookings :
                             b.date = dateStr /\ b.start_time = time})
               IN IF existingBooking # NoBooking
                    THEN Talk(conversationStep, bookingState)
                    ELSE Talk("ask_session_type",
                              [bookingState EXCEPT !.time = time])
        ELSE IF includes(m, "join")
          THEN Talk(conversationStep, bookingState)
        ELSE IF includes(m, "book")
          THEN LET slots == {s \in getAvailableSlotsForDate(dateStr) :
                               s.openSession = NoBooking}
               IN IF slots # {}
                    THEN Talk(conversationStep, bookingState)
                    ELSE Talk("ask_when", bookingState)
        ELSE Talk(conversationStep, bookingState)

\* a handler that asks a closed session for its players as well
handleSessionTypeResponseAsksPlayers(m) ==
  /\ Dispatched(m, "ask_session_type")
  /\ IF includes(m, "open")
       THEN Talk("ask_max_players", [bookingState EXCEPT !.sessionType = "open"])
     ELSE IF includes(m, "closed") \/ includes(m, "private")
       THEN Talk("ask_max_players",
                 [bookingState EXCEPT !.sessionType = "closed",
                                      !.maxPlayers = Null])
     ELSE Talk(conversationStep, bookingState)

handleSessionTypeResponse(m) ==
  /\ Dispatched(m, "ask_session_type")
  /\ IF includes(m, "open")
       THEN Talk("ask_max_players", [bookingState EXCEPT !.sessionType = "open"])
     ELSE IF includes(m, "closed") \/ includes(m, "private")
       THEN Talk("ask_duration",
                 [bookingState EXCEPT !.sessionType = "closed",
                                      !.maxPlayers = Null])
     ELSE Talk(conversationStep, bookingState)

\* numMatch ? parseInt(numMatch[1]) : 14
handleMaxPlayersResponse(m) ==
  /\ Dispatched(m, "ask_max_players")
  /\ LET maxPlayers == IF m.num # Null THEN m.num ELSE 14
     IN Talk("ask_duration", [bookingState EXCEPT !.maxPlayers = maxPlayers])

\* String.includes('2') on the message: a digit 2 in its number
includes2(m) ==
  m.num # Null /\ \E k \in 0..3 : (m.num \div (10 ^ k)) % 10 = 2

\* the row handleConfirmBooking inserts for the draft
ConfirmedRow(state) ==
  [ date |-> state.date,
    start_time |-> state.time,
    duration |-> IF state.duration = Null \/ state.duration = 0
                   THEN 1 ELSE state.duration,
    session_type |-> IF state.sessionType = None
                       THEN "open" ELSE state.sessionType,
    max_players |->
      IF state.sessionType = "open"
        THEN (IF state.maxPlayers = Null \/ state.maxPlayers = 0
                THEN 14 ELSE state.maxPlayers)
        ELSE Null ]

\* a handler that books as soon as the duration is given
handleDurationResponseBooks(m) ==
  /\ Dispatched(m, "ask_duration")
  /\ nextId <= MaxChatBookings
  /\ LET duration == IF includes2(m) THEN 2 ELSE 1
     IN InsertBooking(user,
                      ConfirmedRow([bookingState EXCEPT !.duration = duration]))
  /\ conversationStep' = "done"
  /\ bookingState' = EmptyState
  /\ addBotMessage("success")
  /\ UNCHANGED <<now, isOpen, assistantBookings, isLoading, pending, chatVars,
                 dashVars, availVars>>

\* the summary handleDurationResponse shows: day, time, hours, and "Open
\* session (max n players)" or "Private session"
Summary(state) ==
  [ date |-> state.date,
    start_time |-> state.time,
    duration |-> state.duration,
    session_type |-> IF state.sessionType = "open" THEN "open" ELSE "closed",
    max_players |->
      IF state.sessionType = "open" THEN state.maxPlayers ELSE Null ]

handleDurationResponse(m) ==
  /\ Dispatched(m, "ask_duration")
  /\ LET duration == IF includes2(m) THEN 2 ELSE 1
     IN Talk("confirm_booking", [bookingState EXCEPT !.duration = duration])

\* handleConfirmBooking up to its await: on yes / book the insert is sent
handleConfirmBooking(m) ==
  /\ Dispatched(m, "confirm_booking")
  /\ IF includes(m, "yes") \/ includes(m, "book")
       THEN /\ nextId <= MaxChatBookings
            /\ InsertBooking(user, ConfirmedRow(bookingState))
            /\ isLoading' = TRUE
            /\ pending' = [op |-> "create", outcome |-> last'.outcome]
            /\ addUserMessage
            /\ UNCHANGED <<now, isOpen, conversationStep, bookingState,
                           assistantBookings, chatVars, dashVars, availVars>>
       ELSE Talk("ask_when", EmptyState)

\* a handler whose catch branch ends the conversation as well
ConfirmBookingSettledAlwaysDone ==
  /\ isLoading /\ pending.op = "create"
  /\ assistantBookings' = AllView
  /\ addBotMessage(IF pending.outcome = "ok" THEN "success" ELSE "failure")
  /\ conversationStep' = "done"
  /\ bookingState' = EmptyState
  /\ isLoading' = FALSE
  /\ pending' = NoPending
  /\ UNCHANGED <<now, isOpen, chatVars, storeVars, dashVars, availVars>>

\* handleConfirmBooking after its await: fetchBookings, done and an empty
\* draft on success; the catch branch leaves step and draft; finally
ConfirmBookingSettled ==
  /\ isLoading /\ pending.op = "create"
  /\ IF pending.outcome = "ok"
       THEN /\ assistantBookings' = AllView
            /\ addBotMessage("success")
            /\ conversationStep' = "done"
            /\ bookingState' = EmptyState
       ELSE /\ addBotMessage("failure")
            /\ UNCHANGED <<assistantBookings, conversationStep, bookingState>>
  /\ isLoading' = FALSE
  /\ pending' = NoPending
  /\ UNCHANGED <<now, isOpen, chatVars, storeVars, dashVars, availVars>>

\* handleConfirmJoin up to its await: on yes / join the participant row is
\* sent; otherwise handleWhenResponse on the weekday of the draft's date,
\* then setConversationStep('ask_action')
handleConfirmJoin(m) ==
  /\ Dispatched(m, "confirm_join")
  /\ IF includes(m, "yes") \/ includes(m, "join")
       THEN /\ TriggerCheck(user, bookingState.bookingToJoin.id)
            /\ isLoading' = TRUE
            /\ pending' =
                 [ op |-> "join",
                   outcome |-> IF txn'[user].pc = "insert"
                                 THEN None ELSE last'.outcome ]
            /\ addUserMessage
            /\ UNCHANGED <<now, isOpen, conversationStep, bookingState,
                           assistantBookings, chatVars, dashVars, availVars>>
       ELSE Talk("ask_action", WhenResult(formatEEEE(bookingState.date)).state)

\* handleConfirmJoin after its await
ConfirmJoinSettled ==
  /\ isLoading /\ pending.op = "join" /\ pending.outcome # None
  /\ IF pending.outcome = "ok"
       THEN /\ assistantBookings' = AllView
            /\ addBotMessage("success")
            /\ conversationStep' = "done"
            /\ bookingState' = EmptyState
       ELSE /\ addBotMessage("failure")
            /\ UNCHANGED <<assistantBookings, conversationStep, bookingState>>
  /\ isLoading' = FALSE
  /\ pending' = NoPending
  /\ UNCHANGED <<now, isOpen, chatVars, storeVars, dashVars, availVars>>

\* a done step that stays done on what it does not recognize
handleDoneResponseStays(m) ==
  /\ Dispatched(m, "done")
  /\ IF includes(m, "book") \/ includes(m, "another")
       THEN Talk("ask_when", EmptyState)
     ELSE IF includes(m, "join")
       THEN Talk("ask_when", bookingState)
     ELSE Talk(conversationStep, bookingState)

handleDoneResponse(m) ==
  /\ Dispatched(m, "done")
  /\ IF includes(m, "book") \/ includes(m, "another")
       THEN Talk("ask_when", EmptyState)
     ELSE IF includes(m, "join")
       THEN Talk("ask_when", bookingState)
     ELSE IF includes(m, "bye") \/ includes(m, "thanks")
       THEN Talk(conversationStep, bookingState)
     ELSE Talk("ask_when", EmptyState)

processMessage(m) ==
  \/ StartOver(m)
  \/ AnotherDay(m)
  \/ handleWhenResponse(m)
  \/ handleActionResponse(m)
  \/ handleSessionTypeResponse(m)
  \/ handleMaxPlayersResponse(m)
  \/ handleDurationResponse(m)
  \/ handleConfirmBooking(m)
  \/ handleConfirmJoin(m)
  \/ handleDoneResponse(m)

\* one browser with the assistant panel; the dashboard behind it follows the
\* change notifications
NextAssistant ==
  \/ \E u \in AppUsers : Login(u)
  \/ Logout
  \/ Refetch
  \/ OpenAssistant
  \/ CloseAssistant
  \/ \E m \in Inputs : processMessage(m)
  \/ ConfirmBookingSettled
  \/ ConfirmJoinSettled
  \/ \E u \in AppUsers : StoreInsert(u)

(***************************************************************************)
(* FootballBookingExperience: the conversation as a page, with cards and   *)
(* buttons next to the chat. Its handlers are those of AIAssistant but for *)
(* the texts and two phrases; written here by what a call does with the    *)
(* render it was made in (its closure) and with the state it is applied to.*)
(***************************************************************************)
\* what the handlers of the current render see
Closure ==
  [ step |-> conversationStep, state |-> bookingState,
    bookings |-> assistantBookings ]

\* setConversationStep is not called
Keep == "keep"

\* the updates a processMessage call queues: the step, the draft, the write
Reply(step, state) == [step |-> step, state |-> state, write |-> None]

SayYesCount == Say({"yes", "count me"}, Null)

\* the identities typed into the login form in front of the page
ExperienceUsers ==
  {u \in AppUsers : MaxExperienceUsers >= 2 \/ u.level = "100"}

\* the messages of the chat's quick replies and input field
ExperienceInputs ==
  {SayToday} \cup {SayBook(h) : h \in ChatHours}
    \cup {SayJoin(h) : h \in ChatHours}
    \cup {SayOpen, SayClosed, SayNumber(2), SayYesBook, SayYesCount}
    \cup {SayStartOver, SayOther}

\* getOpenGamesToJoin: the open sessions with a spot left (the first three)
getOpenGamesToJoin ==
  {b \in assistantBookings : b.session_type = "open" /\ spotsLeft(b) > 0}

\* getAvailableSlotsForDate over the bookings of a closure
experienceSlots(snapshot, targetDate) ==
  LET isTodayDate == targetDate = Today
      existingBooking(hour) ==
        find({b \in snapshot :
                b.date = targetDate /\ b.start_time = Time(hour)})
  IN { [time |-> Time(hour), isAvailable |-> TRUE,
        openSession |-> existingBooking(hour)] :
       hour \in {h \in GridHours :
         /\ ~(isTodayDate /\ h <= now.hours)
         /\ \/ existingBooking(h) = NoBooking
            \/ /\ existingBooking(h).session_type = "open"
               /\ spotsLeft(existingBooking(h)) > 0} }

experienceWhenResponse(m, c, prev) ==
  LET targetDate == findDateByDayName(m)
  IN IF targetDate = Null THEN Reply(Keep, prev)
     ELSE IF experienceSlots(c.bookings, targetDate) = {}
       THEN Reply(Keep, prev)
     ELSE Reply("ask_action", [EmptyState EXCEPT !.date = targetDate])

experienceActionResponse(m, c, prev) ==
  LET time == TimeToken(m)
      dateStr == c.state.date
  IN IF includes(m, "join") /\ time # Null
       THEN LET session ==
                  find({b \in c.bookings :
                          /\ b.date = dateStr
                          /\ b.start_time = time
                          /\ b.session_type = "open"})
            IN IF session # NoBooking
                 THEN Reply("confirm_join",
                            [prev EXCEPT !.time = time,
                                         !.bookingToJoin = session])
                 ELSE Reply(Keep, prev)
     ELSE IF includes(m, "book") /\ time # Null
       THEN LET existingBooking ==
                  find({b \in c.bookings :
                          b.date = dateStr /\ b.start_time = time})
            IN IF existingBooking # NoBooking
                 THEN Reply(Keep, prev)
                 ELSE Reply("ask_session_type", [prev EXCEPT !.time = time])
     ELSE IF includes(m, "join")
       THEN Reply(Keep, prev)
     ELSE IF includes(m, "book")
       THEN LET slots == {s \in experienceSlots(c.bookings, dateStr) :
                            s.openSession = NoBooking}
            IN IF slots # {} THEN Reply(Keep, prev)
               ELSE Reply("ask_when", prev)
     ELSE Reply(Keep, prev)

experienceSessionTypeResponse(m, c, prev) ==
  IF includes(m, "open")
    THEN Reply("ask_max_players", [prev EXCEPT !.sessionType = "open"])
  ELSE IF includes(m, "closed") \/ includes(m, "private")
    THEN Reply("ask_duration",
               [prev EXCEPT !.sessionType = "closed", !.maxPlayers = Null])
  ELSE Reply(Keep, prev)

experienceMaxPlayersResponse(m, c, prev) ==
  LET maxPlayers == IF m.num # Null THEN m.num ELSE 14
  IN Reply("ask_duration", [prev EXCEPT !.maxPlayers = maxPlayers])

\* newState = { ...bookingState, duration }: the closure's draft
experienceDurationResponse(m, c, prev) ==
  LET duration == IF includes2(m) THEN 2 ELSE 1
  IN Reply("confirm_booking", [c.state EXCEPT !.duration = duration])

experienceResetConversation == Reply("ask_when", EmptyState)

experienceConfirmBooking(m, c, prev) ==
  IF includes(m, "yes") \/ includes(m, "book")
    THEN [step |-> Keep, state |-> prev, write |-> "create"]
    ELSE experienceResetConversation

experienceConfirmJoin(m, c, prev) ==
  IF includes(m, "yes") \/ includes(m, "count me")
    THEN [step |-> Keep, state |-> prev, write |-> "join"]
    ELSE Reply("ask_action",
               experienceWhenResponse(formatEEEE(c.state.date), c, prev).state)

experienceDoneResponse(m, c, prev) ==
  IF includes(m, "book") \/ includes(m, "another")
    THEN experienceResetConversation
  ELSE IF includes(m, "join") THEN Reply("ask_when", prev)
  ELSE IF includes(m, "done") \/ includes(m, "bye") \/ includes(m, "thanks")
    THEN Reply(Keep, prev)
  ELSE experienceResetConversation

\* processMessage called in closure c, its updates applied to draft prev
experienceProcessMessage(m, c, prev) ==
  IF isStartOver(m) THEN experienceResetConversation
  ELSE IF isAnotherDay(m) THEN Reply("ask_when", prev)
  ELSE IF c.step = "ask_when" THEN experienceWhenResponse(m, c, prev)
  ELSE IF c.step \in {"ask_action", "show_options"}
    THEN experienceActionResponse(m, c, prev)
  ELSE IF c.step = "ask_session_type"
    THEN experienceSessionTypeResponse(m, c, prev)
  ELSE IF c.step = "ask_max_players"
    THEN experienceMaxPlayersResponse(m, c, prev)
  ELSE IF c.step = "ask_duration" THEN experienceDurationResponse(m, c, prev)
  ELSE IF c.step = "confirm_booking" THEN experienceConfirmBooking(m, c, prev)
  ELSE IF c.step = "confirm_join" THEN experienceConfirmJoin(m, c, prev)
  ELSE IF c.step = "done" THEN experienceDoneResponse(m, c, prev)
  ELSE experienceResetConversation

\* a processMessage call runs: its updates, and its write up to the await
Respond(r, c) ==
  /\ IF r.write = "create"
       THEN /\ nextId <= MaxChatBookings
            /\ InsertBooking(user, ConfirmedRow(c.state))
            /\ isLoading' = TRUE
            /\ pending' = [op |-> "create", outcome |-> last'.outcome]
            /\ addUserMessage
            /\ UNCHANGED conversationStep
     ELSE IF r.write = "join"
       THEN /\ TriggerCheck(user, c.state.bookingToJoin.id)
            /\ isLoading' = TRUE
            /\ pending' =
                 [ op |-> "join",
                   outcome |-> IF txn'[user].pc = "insert"
                                 THEN None ELSE last'.outcome ]
            /\ addUserMessage
            /\ UNCHANGED conversationStep
     ELSE /\ conversationStep' =
               (IF r.step = Keep THEN conversationStep ELSE r.step)
          /\ exchange("prompt")
          /\ UNCHANGED <<isLoading, pending, storeVars>>
  /\ bookingState' = r.state
  /\ UNCHANGED <<now, isOpen, assistantBookings, dashVars, availVars>>

\* the page mounts after login: fetchBookings
ExperienceLogin(u) ==
  /\ user = NoUser
  /\ user' = u
  /\ assistantBookings' = AllView
  /\ UNCHANGED <<selectedDate, dash, form, now, isOpen, conversationStep,
                 bookingState, isLoading, pending, messages, chatVars,
                 storeVars, availVars>>

\* logout(): the page unmounts, its state is dropped
ExperienceLogout ==
  /\ user # NoUser
  /\ user' = NoUser
  /\ conversationStep' = "greeting"
  /\ bookingState' = EmptyState
  /\ assistantBookings' = {}
  /\ isLoading' = FALSE
  /\ pending' = NoPending
  /\ messages' = [messages EXCEPT !.entries = <<>>]
  /\ hasStartedChat' = FALSE
  /\ UNCHANGED hasGreeted
  /\ timer' = NoTimer
  /\ UNCHANGED <<selectedDate, dash, form, now, isOpen, storeVars, availVars>>

\* startConversation(initialMessage): the greeting on an empty transcript,
\* and processMessage deferred with the closure of this render (one deferred
\* call at a time)
startConversation(m) ==
  /\ timer = NoTimer
  /\ hasStartedChat' = TRUE
  /\ UNCHANGED hasGreeted
  /\ IF messages.entries = <<>>
       THEN conversationStep' = "ask_when" /\ addBotMessage("prompt")
       ELSE UNCHANGED <<conversationStep, messages>>
  /\ timer' = [message |-> m, closure |-> Closure]
  /\ UNCHANGED <<now, isOpen, assistantBookings, isLoading, pending,
                 storeVars, dashVars, availVars>>

\* the chat's start buttons, shown until the chat has started
StartButton(m) ==
  /\ user # NoUser /\ ~hasStartedChat
  /\ startConversation(m)
  /\ UNCHANGED bookingState

\* the "Start a Game" button, shown while no open game is listed
StartAGame ==
  /\ user # NoUser /\ getOpenGamesToJoin = {}
  /\ startConversation(SayToday)
  /\ UNCHANGED bookingState

\* sendMessage: the input field and the quick replies
ExperienceSend(m) ==
  /\ user # NoUser /\ ~isLoading
  /\ IF ~hasStartedChat
       THEN startConversation(m) /\ UNCHANGED bookingState
       ELSE /\ Respond(experienceProcessMessage(m, Closure, bookingState),
                       Closure)
            /\ UNCHANGED chatVars

\* handleQuickAction from a quick-action card
QuickAction(m) ==
  /\ user # NoUser
  /\ IF ~hasStartedChat
       THEN startConversation(m) /\ UNCHANGED bookingState
       ELSE ExperienceSend(m)

\* an open-game card: setBookingState({ date, bookingToJoin }) and then
\* handleQuickAction(`Join ${game.start_time}`) of the same render
CardClick(game) ==
  /\ user # NoUser /\ game \in getOpenGamesToJoin
  /\ LET card == [EmptyState EXCEPT !.date = game.date,
                                    !.bookingToJoin = game]
         action == SayJoin(HourOf(game.start_time))
     IN IF ~hasStartedChat
          THEN startConversation(action) /\ bookingState' = card
        ELSE IF isLoading
          THEN /\ bookingState' = card
               /\ UNCHANGED <<now, isOpen, conversationStep, assistantBookings,
                              isLoading, pending, messages, chatVars,
                              storeVars, dashVars, availVars>>
        ELSE /\ Respond(experienceProcessMessage(action, Closure, card),
                        Closure)
             /\ UNCHANGED chatVars

\* the deferred call runs: processMessage of the render that set the timer
TimerFires ==
  /\ user # NoUser /\ timer # NoTimer
  /\ Respond(experienceProcessMessage(timer.message, timer.closure,
                                      bookingState),
             timer.closure)
  /\ timer' = NoTimer
  /\ UNCHANGED <<hasStartedChat, hasGreeted>>

\* one browser on the page
NextExperience ==
  \/ \E u \in ExperienceUsers : ExperienceLogin(u)
  \/ ExperienceLogout
  \/ StartButton(SayToday)
  \/ StartAGame
  \/ \E m \in ExperienceInputs : ExperienceSend(m)
  \/ QuickAction(SayToday)
  \/ \E game \in assistantBookings : CardClick(game)
  \/ TimerFires
  \/ ConfirmBookingSettled
  \/ ConfirmJoinSettled
  \/ \E u \in ExperienceUsers : StoreInsert(u)

(***************************************************************************)
(* The assistant with the generative responder (AIAssistant of the booking *)
(* form's file): no dialogue steps and no draft, every message is answered *)
(* from the fetched bookings or by the remote chat function.               *)
(***************************************************************************)
SayWhen == Say({"when"}, Null)

AdvisorInputs == {SayToday, SayWhen, SayOther, SayBook(FirstHour)}

\* sendMessage: the words that are answered locally
isAvailabilityQuery(m) ==
  \E w \in {"today", "tomorrow", "weekend", "available", "slot", "when",
            "show"} : includes(m, w)

\* the awaited supabase.functions.invoke('chat')
ChatCall == [op |-> "chat", outcome |-> None]

\* the effect on isOpen: fetchBookings, and the greeting the first time
AdvisorOpen ==
  /\ user # NoUser /\ ~isOpen
  /\ isOpen' = TRUE
  /\ assistantBookings' = AllView
  /\ IF ~hasGreeted
       THEN messages' = [messages EXCEPT !.entries = <<"prompt">>]
       ELSE UNCHANGED messages
  /\ hasGreeted' = TRUE
  /\ UNCHANGED <<now, conversationStep, bookingState, isLoading, pending,
                 hasStartedChat, timer, storeVars, dashVars, availVars>>

\* sendMessage(text): refused while loading; an availability query is
\* answered at once, anything else goes to the chat function
AdvisorSend(m) ==
  /\ user # NoUser /\ isOpen /\ ~isLoading
  /\ IF isAvailabilityQuery(m)
       THEN /\ messages' = appended(appended(messages, "user"), "reply")
            /\ UNCHANGED <<isLoading, pending>>
       ELSE /\ addUserMessage
            /\ isLoading' = TRUE
            /\ pending' = ChatCall
  /\ UNCHANGED <<now, isOpen, conversationStep, bookingState,
                 assistantBookings, chatVars, storeVars, dashVars, availVars>>

\* the chat function's outcome without the finally block: the apology is
\* shown and the flag stays set
AdvisorSettledNoFinally(ok) ==
  /\ user # NoUser /\ isLoading /\ pending = ChatCall
  /\ messages' = appended(messages, IF ok THEN "reply" ELSE "apology")
  /\ isLoading' = ~ok
  /\ pending' = NoPending
  /\ UNCHANGED <<now, isOpen, conversationStep, bookingState,
                 assistantBookings, chatVars, storeVars, dashVars, availVars>>

\* the chat function returns (the reply, or its fallback text) or fails
\* (catch: the static apology); finally: setIsLoading(false)
AdvisorSettled(ok) ==
  /\ user # NoUser /\ isLoading /\ pending = ChatCall
  /\ messages' = appended(messages, IF ok THEN "reply" ELSE "apology")
  /\ isLoading' = FALSE
  /\ pending' = NoPending
  /\ UNCHANGED <<now, isOpen, conversationStep, bookingState,
                 assistantBookings, chatVars, storeVars, dashVars, availVars>>

\* signing out unmounts the component
AdvisorLogout ==
  /\ user # NoUser
  /\ user' = NoUser
  /\ isOpen' = FALSE
  /\ assistantBookings' = {}
  /\ isLoading' = FALSE
  /\ pending' = NoPending
  /\ messages' = [messages EXCEPT !.entries = <<>>]
  /\ hasGreeted' = FALSE
  /\ UNCHANGED <<selectedDate, dash, form, now, conversationStep,
                 bookingState, hasStartedChat, timer, storeVars, availVars>>

(***************************************************************************)
(* Initial state and specifications.                                       *)
(***************************************************************************)
InitStore ==
  /\ bookings = {}
  /\ participants = [k \in PKeys |-> 0]
  /\ nextId = 1
  /\ txn = [u \in Users |-> Idle]
  /\ last = [op |-> None, outcome |-> None]

InitDash ==
  /\ user = NoUser
  /\ selectedDate = Today
  /\ dash = {}
  /\ form = EmptyForm

\* new Date(): the wall-clock hour and the weekday (0 = Sunday) of today
Nows == [hours : {FirstHour}, day : {3}]

InitAssist ==
  /\ now \in Nows
  /\ isOpen = FALSE
  /\ conversationStep = "greeting"
  /\ bookingState = EmptyState
  /\ assistantBookings = {}
  /\ isLoading = FALSE
  /\ pending = NoPending
  /\ messages = NoMessages
  /\ hasStartedChat = FALSE
  /\ hasGreeted = FALSE
  /\ timer = NoTimer

InitAvail ==
  /\ availIn = NoCall
  /\ availOut = None

Init == InitStore /\ InitDash /\ InitAssist /\ InitAvail

\* statements of different clients interleave (READ COMMITTED)
Next ==
  \E u \in Users :
    \/ CreateRequest(u)
    \/ JoinRequest(u)
    \/ InsertRequest(u)
    \/ LeaveRequest(u)
    \/ DeleteRequest(u)

Spec == Init /\ [][Next]_vars

\* store operations executed one at a time
NoOtherInFlight(u) == \A v \in Users \ {u} : txn[v].pc = "idle"

NextSerial ==
  \E u \in Users :
    \/ NoOtherInFlight(u) /\ CreateRequest(u)
    \/ NoOtherInFlight(u) /\ JoinRequest(u)
    \/ NoOtherInFlight(u) /\ InsertRequest(u)
    \/ NoOtherInFlight(u) /\ LeaveRequest(u)
    \/ NoOtherInFlight(u) /\ DeleteRequest(u)

SpecSerial == Init /\ [][NextSerial]_vars

\* one browser on the dashboard and the admin page
SpecDashboard == Init /\ [][NextDashboard]_vars

\* one browser talking to the assistant
SpecAssistant == Init /\ [][NextAssistant]_vars

\* one browser on the FootballBookingExperience page
SpecExperience == Init /\ [][NextExperience]_vars

\* the dashboard of one browser next to the other clients of the store: its
\* own clicks, the statements of every client, and the change notifications
\* of the realtime channel, each calling refetch() when it is delivered
NextLive ==
  \/ \E u \in AppUsers : Login(u)
  \/ Logout
  \/ \E d \in Dates \cup {Null} : SelectDate(d)
  \/ Refetch
  \/ \E b \in dash : Settled /\ ListJoin(b)
  \/ \E b \in dash : Settled /\ ListLeave(b)
  \/ \E b \in dash : Settled /\ ListDelete(b)
  \/ \E u \in Users : CreateRequest(u)
  \/ \E u \in Users : JoinRequest(u)
  \/ \E u \in Users : LeaveRequest(u)
  \/ \E u \in Users : DeleteRequest(u)
  \/ \E u \in Users : StoreInsert(u)

\* a notification that is due is delivered, and the queries it invalidates
\* run to their end
SpecLive == Init /\ [][NextLive]_vars /\ WF_vars(Refetch)

\* the day references typed or clicked in ask_when
SayWeekend == Say({"weekend"}, Null)
SayNextWeek == Say({"next week"}, Null)
SayDay(n) == Say({dayMap[n + 1]}, Null)

DayInputs ==
  {SayToday, SayTomorrow, SayWeekend, SayNextWeek, SayOther}
    \cup {SayDay(n) : n \in 0..6}

\* new Date() on any weekday, in the first hour of the grid or in its last
WhenNows == [hours : {FirstHour, 19}, day : 0..6]

InitWhen ==
  /\ InitStore /\ InitDash /\ InitAvail
  /\ now \in WhenNows
  /\ isOpen = FALSE
  /\ conversationStep = "greeting"
  /\ bookingState = EmptyState
  /\ assistantBookings = {}
  /\ isLoading = FALSE
  /\ pending = NoPending
  /\ messages = AllMessages
  /\ hasStartedChat = FALSE
  /\ hasGreeted = FALSE
  /\ timer = NoTimer

\* the transcript has room for the entries of one more input
Room == Len(messages.entries) + 2 <= MaxTranscript

\* the assistant asked for a day, answered on every weekday
NextWhen ==
  \/ \E u \in AppUsers : Login(u)
  \/ Logout
  \/ OpenAssistant
  \/ \E m \in DayInputs : Room /\ handleWhenResponse(m)
  \/ Room /\ StartOver(SayStartOver)

SpecWhen == InitWhen /\ [][NextWhen]_vars

\* the conversation with its transcript kept whole
InitTranscript ==
  /\ InitStore /\ InitDash /\ InitAvail
  /\ now \in Nows
  /\ isOpen = FALSE
  /\ conversationStep = "greeting"
  /\ bookingState = EmptyState
  /\ assistantBookings = {}
  /\ isLoading = FALSE
  /\ pending = NoPending
  /\ messages = AllMessages
  /\ hasStartedChat = FALSE
  /\ hasGreeted = FALSE
  /\ timer = NoTimer

\* what is said in it: a booking, a join, and what leads astray
TranscriptInputs ==
  { SayToday, SayBook(FirstHour), SayJoin(FirstHour), SayOpen, SayClosed,
    SayNumber(1), SayNumber(2), SayYesBook, SayYesJoin, SayStartOver,
    SayAnotherDay, SayOther }

NextTranscript ==
  \/ \E u \in AppUsers : Login(u)
  \/ Logout
  \/ OpenAssistant
  \/ CloseAssistant
  \/ \E m \in TranscriptInputs : Room /\ processMessage(m)
  \/ ConfirmBookingSettled
  \/ ConfirmJoinSettled
  \/ \E u \in AppUsers : StoreInsert(u)

SpecTranscript == InitTranscript /\ [][NextTranscript]_vars

\* the generative assistant, its transcript kept whole, beside the store
NextAdvisor ==
  \/ \E u \in AppUsers : Login(u)
  \/ AdvisorLogout
  \/ AdvisorOpen
  \/ CloseAssistant
  \/ \E m \in AdvisorInputs : Room /\ AdvisorSend(m)
  \/ \E ok \in BOOLEAN : AdvisorSettled(ok)
  \/ \E u \in Users \ AppUsers : CreateRequest(u)

\* a call of the chat function comes back or fails; it never hangs
SpecAdvisor ==
  InitTranscript /\ [][NextAdvisor]_vars
    /\ WF_vars(\E ok \in BOOLEAN : AdvisorSettled(ok))

\* the availability function on its own, over every argument in the bounds
InitCalls ==
  /\ InitStore /\ InitDash /\ InitAssist
  /\ availIn \in Calls
  /\ availOut = None

NextAvail == CallIsSlotAvailable \/ Rerender

SpecAvail == InitCalls /\ [][NextAvail]_vars

\* the slot enumeration on its own: getAvailableSlotsForDate called again
\* and again, for today and tomorrow, on the bookings fetched from a store
\* of any content in the bounds
SlotDates == {Today, Today + 1}

SlotShapes ==
  [ date : SlotDates, start_time : {Time(FirstHour), Time(19)},
    session_type : {"open", "closed"}, full : BOOLEAN ]

\* the stored rows, of creator ann, and who has joined: bob where the
\* session is full
SlotRows(f) ==
  { Row(id, [name |-> "ann", level |-> "100"],
        [ date |-> f[id].date, start_time |-> f[id].start_time,
          duration |-> 1, session_type |-> f[id].session_type,
          max_players |-> IF f[id].session_type = "open" THEN 2 ELSE Null ]) :
    id \in DOMAIN f }

SlotJoins(f) ==
  [ k \in PKeys |->
      IF k[1] \in DOMAIN f /\ f[k[1]].full /\ k[2].name = "bob"
        THEN 1 ELSE 0 ]

\* the slots as the loop pushes them: in hour order
RECURSIVE inHourOrder(_, _)
inHourOrder(slots, hour) ==
  IF hour > 19 THEN <<>>
  ELSE (IF \E s \in slots : s.time = Time(hour)
          THEN <<CHOOSE s \in slots : s.time = Time(hour)>> ELSE <<>>)
         \o inHourOrder(slots, hour + 1)

slotList(targetDate) ==
  inHourOrder(getAvailableSlotsForDate(targetDate), FirstHour)

\* no call yet
NoSlotCall == [calls |-> 0, date |-> Null, slots |-> <<>>]

InitSlots ==
  /\ \E n \in 0..MaxBookings : \E f \in [1..n -> SlotShapes] :
       /\ bookings = SlotRows(f)
       /\ participants = SlotJoins(f)
       /\ nextId = n + 1
  /\ txn = [u \in Users |-> Idle]
  /\ last = [op |-> None, outcome |-> None]
  /\ user \in AppUsers
  /\ selectedDate = Today
  /\ dash = Fetch(bookings, participants, selectedDate)
  /\ form = EmptyForm
  /\ now \in [hours : {FirstHour, 18}, day : {3}]
  /\ isOpen = TRUE
  /\ conversationStep = "ask_when"
  /\ bookingState = EmptyState
  /\ assistantBookings = AllView
  /\ isLoading = FALSE
  /\ pending = NoPending
  /\ messages = appended(NoMessages, "prompt")
  /\ hasStartedChat = FALSE
  /\ hasGreeted = FALSE
  /\ timer = NoTimer
  /\ availIn = NoCall
  /\ availOut = NoSlotCall

\* an enumeration whose find takes the row out of the bookings array
\* (splice), so that a slot found once is free the next time
CallSlotsSplicing(targetDate) ==
  /\ availOut.calls < MaxCalls
  /\ availOut' = [ calls |-> availOut.calls + 1, date |-> targetDate,
                   slots |-> slotList(targetDate) ]
  /\ assistantBookings' =
       {b \in assistantBookings :
          b.date # targetDate \/ (targetDate = Today /\ HourOf(b.start_time) <= now.hours)}
  /\ UNCHANGED <<now, isOpen, conversationStep, bookingState, isLoading,
                 pending, messages, chatVars, availIn, storeVars, dashVars>>

\* a call of getAvailableSlotsForDate(targetDate): the date and the list
\* returned are noted; bookings, draft, step and store are only read
CallSlots(targetDate) ==
  /\ availOut.calls < MaxCalls
  /\ availOut' = [ calls |-> availOut.calls + 1, date |-> targetDate,
                   slots |-> slotList(targetDate) ]
  /\ UNCHANGED <<assistantBookings, now, isOpen, conversationStep,
                 bookingState, isLoading, pending, messages, chatVars,
                 availIn, storeVars, dashVars>>

NextSlots == \E targetDate \in SlotDates : CallSlots(targetDate)

SpecSlots == InitSlots /\ [][NextSlots]_vars

(***************************************************************************)
(* Properties of the store.                                                *)
(***************************************************************************)
Occupancy(bid) == 1 + ParticipantCount(bid)

OpenBookings == {b \in bookings : b.session_type = "open"}

\* C1: however the trigger's reads and the row insertions of concurrent join
\* attempts interleave, no open reservation ends up with more players
\* (creator + participants) than max_players: with K spots left at most K of
\* the attempts succeed.
C1_RaceFreeCapacity ==
  \A b \in OpenBookings : Occupancy(b.id) <= b.max_players

\* a join attempt on a full open reservation is turned down and stores nothing
FullJoinRejected ==
  \A u \in Users, b \in OpenBookings :
    (TriggerCheck(u, b.id) /\ Occupancy(b.id) = b.max_players)
      => /\ participants' = participants
         /\ txn'[u].pc = "idle"
         /\ last' = [op |-> "join", outcome |-> "full"]

CapacityKept == \A b \in OpenBookings : Occupancy(b.id) <= b.max_players

\* C2: with store operations executed one at a time, every open reservation
\* keeps 1 + participants <= max_players, and a join attempted when
\* 1 + participants = max_players is rejected and leaves the participants
\* unchanged.
C2_SerialCapacity == [](CapacityKept) /\ [][FullJoinRejected]_vars

\* a join was just refused as full, on a reservation that a participant had
\* filled
C2_Witness ==
  /\ last = [op |-> "join", outcome |-> "full"]
  /\ \E b \in OpenBookings :
       ParticipantCount(b.id) >= 1 /\ Occupancy(b.id) = b.max_players

\* the admission conditions for (bid, u), read in the current store state
Admissible(bid, u) ==
  \E b \in bookings :
    /\ b.id = bid
    /\ b.session_type = "open"
    /\ ParticipantCount(bid) + 2 <= b.max_players
    /\ participants[<<bid, u>>] = 0

\* the step on which the store answers u's insertion for bid
JoinAnswered(u, bid) ==
  \/ TriggerCheck(u, bid) /\ txn'[u].pc = "idle"
  \/ RowInsert(u) /\ txn[u].booking_id = bid

\* C4: a participant insertion is accepted iff the reservation exists, is
\* open, has participant count + 2 <= max_players and holds no row for the
\* same (reservation, name, level); a rejected insertion leaves the
\* participant table unchanged and answers with an error.
C4_JoinAdmission ==
  [][\A u \in Users, bid \in BookingIds :
       JoinAnswered(u, bid) =>
         /\ (last'.outcome = "ok") <=> Admissible(bid, u)
         /\ last'.outcome # "ok" =>
              (participants' = participants /\ last'.op = "join")]_vars

NoDuplicateRows == \A k \in PKeys : participants[k] <= 1

DuplicateJoinRejected ==
  \A u \in Users, bid \in BookingIds :
    (JoinAnswered(u, bid) /\ participants[<<bid, u>>] >= 1)
      => (participants' = participants /\ last'.outcome # "ok")

\* C8: a (name, level) pair appears at most once among the participants of a
\* reservation, and a join by a user who already participates fails and leaves
\* the participants unchanged.
C8_NoDuplicateParticipation ==
  [](NoDuplicateRows) /\ [][DuplicateJoinRejected]_vars

\* the UNIQUE constraint has just refused a second row of a participant
C8_Witness ==
  /\ last = [op |-> "join", outcome |-> "duplicate"]
  /\ \E k \in PKeys : participants[k] = 1

NoOrphans ==
  \A k \in PKeys : participants[k] > 0 => \E b \in bookings : b.id = k[1]

CascadeDelete ==
  \A bid \in BookingIds :
    DeleteBooking(bid) => \A u \in Users : participants'[<<bid, u>>] = 0

\* C9: deleting a reservation removes all its participant rows, and every
\* participant row references an existing reservation, also when the delete
\* runs between the trigger and the row insertion of a concurrent join.
C9_NoOrphans == [](NoOrphans) /\ [][CascadeDelete]_vars

\* a join whose reservation was deleted after its trigger had passed was
\* refused by the foreign key
C9_Witness ==
  /\ last = [op |-> "join", outcome |-> "fk_violation"]
  /\ nextId > 1

\* C10: every stored reservation has duration 1 or 2 and type open or
\* closed, closed rows carry no max_players and open rows carry
\* max_players >= 2 (an insertion violating this stores nothing).
C10_ReservationShape ==
  \A b \in bookings :
    /\ b.duration \in {1, 2}
    /\ b.session_type \in {"open", "closed"}
    /\ b.session_type = "closed" => b.max_players = Null
    /\ b.session_type = "open" => (b.max_players # Null /\ b.max_players >= 2)

(***************************************************************************)
(* Properties of the availability function.                                *)
(***************************************************************************)
\* the hours a reservation or a candidate occupies
Cells(start, dur) == HourOf(start)..(HourOf(start) + dur - 1)

\* C5: with a date selected, isSlotAvailable answers false iff the interval
\* of some existing reservation, open or closed, intersects the candidate's
\* [start, start+duration), a 2-hour candidate over both its hours.
C5_SlotBookable ==
  (availOut # None /\ availIn.selectedDate # Null) =>
    ( availOut = "false" <=>
        \E b \in availIn.existing :
          Cells(b.start_time, b.duration)
            \cap Cells(availIn.time, availIn.dur) # {} )

\* a 2-hour candidate was refused only because of an open session that
\* starts in its second hour
C5_Witness ==
  /\ availOut = "false"
  /\ availIn.selectedDate # Null
  /\ availIn.dur = 2
  /\ \E b \in availIn.existing :
       /\ b.session_type = "open"
       /\ HourOf(b.start_time) = HourOf(availIn.time) + 1
       /\ availIn.existing = {b}

(***************************************************************************)
(* Properties of the application.                                          *)
(***************************************************************************)
\* two reservations of one date whose windows [start, start+duration) meet
Overlapping(b1, b2) ==
  /\ b1.id # b2.id
  /\ b1.date = b2.date
  /\ Cells(b1.start_time, b1.duration) \cap Cells(b2.start_time, b2.duration) # {}

\* C3: in every reachable state of the store no two reservations on the same
\* date have intersecting windows [start, start+duration), whatever their
\* session types.
C3_NoOverlap == \A b1, b2 \in bookings : ~Overlapping(b1, b2)

\* who is the creator (name and level) of the reservation
IsCreator(who, booking) ==
  /\ who # NoUser
  /\ booking.created_by_name = who.name
  /\ booking.created_by_level = who.level

\* the list offers the delete action to the creator and to nobody else
ListDeleteGated ==
  ListShown => \A b \in dash : canDelete(user, b) <=> IsCreator(user, b)

\* a reservation is deleted only by a step of its creator
DeletedByCreator ==
  \A b \in bookings : DeleteBooking(b.id) => IsCreator(user, b)

\* C6: on every surface (booking list, admin page, store) the logged-in user
\* is able to delete a reservation iff name and level are those of its
\* creator.
C6_DeleteOwnership == [](ListDeleteGated) /\ [][DeletedByCreator]_vars

\* C7: the list enables the leave action for the logged-in user iff the user
\* (name and level) is a participant of the reservation, and never for the
\* reservation's creator, after joins made through the list or through the
\* assistant's confirm_join step.
C7_LeaveGating ==
  ListShown =>
    \A b \in dash :
      /\ canLeave(user, b) <=> user \in b.participants
      /\ IsCreator(user, b) => ~canLeave(user, b)

(***************************************************************************)
(* Properties of the assistant's conversation.                             *)
(***************************************************************************)
\* the answers the confirm steps take for a yes
AffirmsBooking(m) == includes(m, "yes") \/ includes(m, "book")

AffirmsJoin(m) == includes(m, "yes") \/ includes(m, "join")

\* the step sends a write from a confirm step on an affirmative answer
ConfirmationSent ==
  \E m \in Inputs :
    \/ /\ conversationStep = "confirm_booking" /\ AffirmsBooking(m)
       /\ handleConfirmBooking(m)
    \/ /\ conversationStep = "confirm_join" /\ AffirmsJoin(m)
       /\ handleConfirmJoin(m)

\* the store changes only when a confirmation is sent, or when it inserts the
\* participant row of a join so sent
WriteOnlyOnConfirmation ==
  storeVars' # storeVars =>
    ConfirmationSent \/ \E u \in AppUsers : StoreInsert(u)

\* any other message changes the step, the draft and the transcript only
TalkOnlyOtherwise ==
  \/ UNCHANGED <<storeVars, dashVars, now, isOpen, assistantBookings,
                 isLoading, pending>>
  \/ ConfirmationSent
  \/ ~\E m \in Inputs : processMessage(m)

\* C11: the assistant issues a store write only on a transition out of
\* confirm_booking or confirm_join taken on an affirmative input; every other
\* transition of the conversation, whatever the state and the input (reset
\* phrases included), changes the step, the draft and the transcript only.
C11_WriteOnlyOnConfirmation ==
  [][WriteOnlyOnConfirmation /\ TalkOnlyOtherwise]_vars

\* a booking confirmed in the conversation has been stored
C11_Witness ==
  /\ conversationStep = "done" /\ lastMessage = "success"
  /\ \E b \in bookings : IsCreator(user, b)

\* the awaited write is answered and the assistant is still mounted
AttemptEnds == isLoading /\ ~isLoading' /\ user' # NoUser

\* the two ends of an attempt: done with an empty draft, or the confirm step
\* and the draft as they were, with the failure reported
AttemptOutcome ==
  IF pending.outcome = "ok"
    THEN /\ conversationStep' = "done"
         /\ bookingState' = EmptyState
         /\ lastMessage' = "success"
    ELSE /\ conversationStep' = conversationStep
         /\ conversationStep =
              (IF pending.op = "create" THEN "confirm_booking" ELSE "confirm_join")
         /\ bookingState' = bookingState
         /\ lastMessage' = "failure"

\* nothing moves the step or the draft while the write is awaited
HeldWhileLoading ==
  isLoading /\ isLoading' => UNCHANGED <<conversationStep, bookingState>>

\* C12: an affirmative confirmation (booking or join) ends, once the store
\* has answered, in one of two ways: on success the step is done and the
\* draft is empty; on failure the step is the same confirm step, the draft is
\* what it was before the attempt, a failure message is appended and done is
\* not entered. The loading flag is cleared in both.
C12_ConfirmationOutcome ==
  [][(AttemptEnds => AttemptOutcome) /\ HeldWhileLoading]_vars

\* a booking the store refused: the assistant is back on confirm_booking
\* with the draft
C12_Witness ==
  /\ lastMessage = "failure" /\ ~isLoading
  /\ conversationStep = "confirm_booking"
  /\ bookingState.time # Null /\ bookingState.sessionType # None

\* the conversation enters step `to` from another step
Enters(to) == conversationStep' = to /\ conversationStep # to

\* how the steps of the booking path are entered
BookingPathEdges ==
  /\ Enters("ask_action") => conversationStep \in {"ask_when", "confirm_join"}
  /\ Enters("confirm_join") => conversationStep = "ask_action"
  /\ Enters("ask_session_type") => conversationStep = "ask_action"
  /\ Enters("ask_max_players") =>
       conversationStep = "ask_session_type" /\ bookingState'.sessionType = "open"
  /\ Enters("ask_duration") =>
       \/ /\ conversationStep = "ask_session_type"
          /\ bookingState'.sessionType = "closed"
       \/ /\ conversationStep = "ask_max_players"
          /\ bookingState.sessionType = "open"
  /\ Enters("confirm_booking") => conversationStep = "ask_duration"

\* what the session type and the duration steps do with an answer
BookingPathMoves ==
  /\ conversationStep = "ask_session_type" =>
       \A m \in Inputs :
         handleSessionTypeResponse(m) =>
           conversationStep' =
             (IF includes(m, "open") THEN "ask_max_players"
              ELSE IF includes(m, "closed") THEN "ask_duration"
              ELSE conversationStep)
  /\ conversationStep = "ask_duration" =>
       \A m \in Inputs :
         handleDurationResponse(m) => conversationStep' = "confirm_booking"

\* at confirm_booking the draft is that of the path taken
BookingPathDraft ==
  conversationStep = "confirm_booking" =>
    /\ bookingState.date # Null /\ bookingState.time # Null
    /\ bookingState.duration \in {1, 2}
    /\ bookingState.sessionType \in {"open", "closed"}
    /\ bookingState.sessionType = "open" <=> bookingState.maxPlayers # Null

\* C14: a closed session type leads from ask_session_type directly to
\* ask_duration, an open one to ask_max_players and from there to
\* ask_duration; ask_duration always leads to confirm_booking; and
\* confirm_booking is entered only through ask_when, ask_action,
\* ask_session_type, ask_max_players (exactly when the type is open) and
\* ask_duration, in that order.
C14_BookingPath ==
  [](BookingPathDraft) /\ [][BookingPathEdges /\ BookingPathMoves]_vars

\* a closed booking awaits its confirmation: no players were asked for
C14_Witness ==
  /\ conversationStep = "confirm_booking"
  /\ bookingState.sessionType = "closed" /\ bookingState.maxPlayers = Null

\* the inputs that hold a reset phrase
ResetPhrases == {m \in Inputs : isStartOver(m) \/ isAnotherDay(m)}

\* a reset phrase is taken in every state that takes input
EscapeOffered ==
  Sendable => \A m \in ResetPhrases : ENABLED processMessage(m)

\* and what it does is move to ask_when, whatever else the message holds
EscapesToAskWhen ==
  \A m \in ResetPhrases :
    processMessage(m) =>
      /\ conversationStep' = "ask_when"
      /\ UNCHANGED <<storeVars, isLoading, pending>>

\* C15: in every state of the conversation in which input is accepted, an
\* input holding a reset phrase ("start over", "cancel", "different day")
\* moves the conversation to ask_when and issues no store write; the reset
\* check comes before the state's own handler, the affirmative check of the
\* confirm steps included.
C15_UniversalEscape == [](EscapeOffered) /\ [][EscapesToAskWhen]_vars

\* "different day" was said with a complete draft, which confirm_booking
\* alone has: the conversation is at ask_when and nothing was booked
C15_Witness ==
  /\ conversationStep = "ask_when" /\ bookingState.duration # Null
  /\ bookings = {} /\ ~isLoading

\* the slot list has an entry at the hour, free or joinable
ListedFree(slots, h) ==
  \E s \in slots : s.time = Time(h) /\ s.openSession = NoBooking

ListedJoinable(slots, h) ==
  \E s \in slots : s.time = Time(h) /\ s.openSession # NoBooking

\* a reservation of the snapshot whose window holds the hour's cell
CoveredIn(snapshot, d, h) ==
  \E b \in snapshot : b.date = d /\ h \in Cells(b.start_time, b.duration)

\* an open session of the snapshot starting at the hour, not yet full
JoinableIn(snapshot, d, h) ==
  \E b \in snapshot :
    /\ b.date = d /\ b.start_time = Time(h) /\ b.session_type = "open"
    /\ Cardinality(b.participants) + 1 < b.max_players

\* C16: for a date and a snapshot of bookings, each grid slot that survives
\* the today cutoff is listed as free exactly when no reservation's window
\* covers that 1-hour cell, as joinable exactly when an open session starts
\* exactly there with occupancy below its maximum, and is omitted otherwise
\* (snapshots with 1-hour and 2-hour bookings).
C16_SlotClassification ==
  \A d \in Dates : \A h \in GridHours :
    ~(d = Today /\ h <= now.hours) =>
      LET slots == getAvailableSlotsForDate(d)
      IN /\ ListedFree(slots, h) <=> ~CoveredIn(assistantBookings, d, h)
         /\ ListedJoinable(slots, h) <=> JoinableIn(assistantBookings, d, h)

\* C17: every reservation that can be created, through the form or through
\* the dialogue, starts on the hourly grid at an hour from 08 to 19: none at
\* 20:00, none before 08:00, none at an hour free text brought in.
C17_StartOnGrid ==
  \A b \in bookings :
    /\ HourOf(b.start_time) \in GridHours
    /\ b.start_time = Time(HourOf(b.start_time))

\* C18: closing the assistant at any point discards the conversation's state
\* (step, draft, transcript), so that reopening starts from the greeting.
C18_CloseDiscards ==
  ~isOpen =>
    /\ conversationStep = "greeting"
    /\ bookingState = EmptyState
    /\ messages.entries = <<>>

\* the store's answer when nothing matched
NotFoundUnchanged ==
  last'.outcome = "not_found" /\ UNCHANGED <<bookings, participants>>

\* C19: a leave for a (reservation, identity) pair that has no participant
\* row fails with NotFound, a delete of a reservation id that does not exist
\* fails with NotFound, and the store is unchanged in both cases.
C19_NotFound ==
  [][\A bid \in BookingIds :
       /\ \A u \in Users :
            DeleteParticipant(bid, u) /\ participants[<<bid, u>>] = 0
              => NotFoundUnchanged
       /\ DeleteBooking(bid) /\ ~(\E b \in bookings : b.id = bid)
            => NotFoundUnchanged]_vars

\* C20: in ask_action a join intent with a time moves to confirm_join only
\* if an open session of the snapshot starts exactly at the draft's date and
\* that time, has a spot left, and the user is neither its creator nor one
\* of its participants.
C20_JoinRevalidated ==
  [][conversationStep = "ask_action" /\ Enters("confirm_join") =>
       LET session == bookingState'.bookingToJoin
       IN /\ session \in assistantBookings
          /\ session.session_type = "open"
          /\ session.date = bookingState.date
          /\ session.start_time = bookingState'.time
          /\ spotsLeft(session) > 0
          /\ ~IsCreator(user, session)
          /\ user \notin session.participants]_vars

\* C13: the conversation handles one input at a time: while the write of
\* input N is awaited, no processing of input N+1 starts - no call reaches
\* processMessage and nothing else changes the step, the draft or the
\* transcript - from any entry point of the conversation (typed input, quick
\* replies, quick-action cards, open-game cards, start buttons).
C13_OneAtATime ==
  [][isLoading /\ isLoading' /\ user' # NoUser =>
       UNCHANGED <<conversationStep, bookingState, messages>>]_vars

\* a confirm step answers an input that is not affirmative: the conversation
\* restarts at ask_when with an empty draft and the store is left alone
DeclineRestarts ==
  /\ conversationStep' = "ask_when"
  /\ bookingState' = EmptyState
  /\ UNCHANGED <<storeVars, isLoading, pending>>

\* C21: in confirm_booking and in confirm_join alike, an input that is not
\* affirmative moves the conversation to ask_when, discards the whole draft
\* (date, time, type, max players, duration, session to join) and issues no
\* write.
C21_NegativeConfirmation ==
  [][\A m \in Inputs :
       /\ handleConfirmBooking(m) /\ ~AffirmsBooking(m) => DeclineRestarts
       /\ handleConfirmJoin(m) /\ ~AffirmsJoin(m) => DeclineRestarts]_vars

(***************************************************************************)
(* Properties of the live dashboard.                                       *)
(***************************************************************************)
\* the dashboard shows something else than the store holds for its date
Stale == user # NoUser /\ dash # DateView(selectedDate)

\* what a delivered notification leaves on the dashboard: the rows of the
\* store for the selected date, each with the participant rows of the store
RefetchReadsStore ==
  Refetch => dash' = Fetch(bookings, participants, selectedDate)

Reattempts ==
  /\ isLoading'
  /\ pending'.op =
       (IF conversationStep = "confirm_booking" THEN "create" ELSE "join")
  /\ UNCHANGED <<conversationStep, bookingState>>

\* C23: after a failed write in confirm_booking or confirm_join, the reply
\* the assistant offers with the failure ("Try again") attempts the same
\* write again with the same, unchanged draft; it neither resets the
\* conversation nor discards the draft.
C23_RetryAfterFailure ==
  [][lastMessage = "failure" /\ processMessage(SayTryAgain) => Reattempts]_vars

\* the message names a choice the step can take
ValidChoice(m) ==
  IF conversationStep = "ask_session_type"
    THEN includes(m, "open") \/ includes(m, "closed") \/ includes(m, "private")
  ELSE IF conversationStep = "ask_max_players" THEN m.num # Null
  ELSE m.num \in {1, 2}

\* the step answers with a prompt and keeps the step and the draft
RePrompts ==
  /\ UNCHANGED <<conversationStep, bookingState>>
  /\ lastMessage' = "prompt"

\* C24: in ask_session_type, ask_max_players and ask_duration an input that
\* names no valid choice for the step (a session type; a player count; a
\* duration of 1 or 2) leaves the step and the draft unchanged and appends a
\* re-prompt; the step advances only on a valid choice.
C24_RePromptKeepsState ==
  [][\A m \in Inputs :
       /\ \/ handleSessionTypeResponse(m)
          \/ handleMaxPlayersResponse(m)
          \/ handleDurationResponse(m)
       /\ ~ValidChoice(m)
       => RePrompts]_vars

\* the hour has begun or is over today
Retroactive(d, t) == d = Today /\ HourOf(t) <= now.hours

\* C25: when the target date is today, no slot whose start hour is at or
\* before the current hour is listed by the availability enumeration, none
\* is accepted by ask_action as the time of a new booking or of a join, and
\* so no confirm step is reached for such a slot.
C25_NoRetroactiveBooking ==
  /\ \A s \in getAvailableSlotsForDate(Today) : ~Retroactive(Today, s.time)
  /\ conversationStep \in
         {"ask_session_type", "ask_max_players", "ask_duration",
          "confirm_booking", "confirm_join"}
       => ~Retroactive(bookingState.date, bookingState.time)

(***************************************************************************)
(* Properties of the day resolution.                                       *)
(***************************************************************************)
\* the first Saturday or Sunday from today on
FirstWeekendDay ==
  CHOOSE d \in Today..(Today + 6) :
    /\ isWeekend(getDay(d))
    /\ \A e \in Today..(d - 1) : ~isWeekend(getDay(e))

\* a weekday name resolves to the next date of that weekday, a week ahead
\* when it is today's
NamedDayResolved ==
  \A n \in 0..6 :
    LET date == findDateByDayName(SayDay(n))
    IN /\ date \in (Today + 1)..(Today + 7)
       /\ getDay(date) = n
       /\ n = getDay(Today) => date = Today + 7

\* C26: for every current weekday and every weekday name in the input,
\* findDateByDayName returns a date 1 to 7 days after today whose weekday is
\* the named one (7 when the named day is today's weekday); "today" gives
\* today, "tomorrow" today + 1, "next week" today + 7, and "weekend" the
\* first Saturday or Sunday scanning from today forward (today itself when
\* it is one).
C26_DayResolution ==
  /\ NamedDayResolved
  /\ findDateByDayName(SayToday) = Today
  /\ findDateByDayName(SayTomorrow) = Today + 1
  /\ findDateByDayName(SayNextWeek) = Today + 7
  /\ findDateByDayName(SayWeekend) = FirstWeekendDay
  /\ conversationStep = "ask_action" => bookingState.date \in Today..(Today + 7)

\* today's own weekday was named and the draft holds the date a week ahead
C26_Witness ==
  /\ conversationStep = "ask_action"
  /\ bookingState.date = Today + 7
  /\ lastMessage = "prompt" /\ now.day = 6

\* what ask_when does with a day reference that resolves to `date`, and with
\* one that resolves to none
ResolvedMoves(date) ==
  /\ conversationStep' = "ask_action"
  /\ bookingState' = [EmptyState EXCEPT !.date = date]

\* C27: whenever a day reference given in ask_when resolves to a concrete
\* date, the conversation moves to ask_action with the draft reset to exactly
\* {date = the resolved date} (and the summary lists the joinable sessions
\* before the free slots); when it does not resolve, the step stays ask_when
\* and the draft is unchanged.
C27_WhenResolution ==
  [][\A m \in DayInputs :
       handleWhenResponse(m) =>
         IF findDateByDayName(m) # Null
           THEN ResolvedMoves(findDateByDayName(m))
           ELSE UNCHANGED <<conversationStep, bookingState>>]_vars

(***************************************************************************)
(* Properties of the conversation's ends.                                  *)
(***************************************************************************)
\* some input is taken and leads to ask_when
LeadsToAskWhen ==
  Sendable =>
    ENABLED (processMessage(SayStartOver) /\ conversationStep' = "ask_when")

\* the keywords handleDoneResponse knows: a new flow, a farewell
NewFlow(m) == includes(m, "book") \/ includes(m, "another") \/ includes(m, "join")

Farewell(m) == includes(m, "bye") \/ includes(m, "thanks")

\* in done, anything else restarts the flow
DoneRestarts ==
  conversationStep = "done" =>
    \A m \in Inputs :
      processMessage(m) /\ ~NewFlow(m) /\ ~Farewell(m) =>
        /\ conversationStep' = "ask_when"
        /\ bookingState' = EmptyState
        /\ UNCHANGED <<storeVars, isLoading, pending>>

\* C28: from every reachable state of the dialogue in which no write is in
\* flight there is an input that leads to ask_when, and in done every input
\* that is not recognized as a new-flow or farewell keyword restarts the flow
\* at ask_when with an empty draft.
C28_NoDeadEnd == [](LeadsToAskWhen) /\ [][DoneRestarts]_vars

\* a booking was made, the conversation was done, and it is asking for a day
\* again
C28_Witness ==
  /\ Sendable /\ conversationStep = "ask_when" /\ bookingState = EmptyState
  /\ \E b \in assistantBookings : IsCreator(user, b)

(***************************************************************************)
(* Properties of the transcript.                                           *)
(***************************************************************************)
\* list `before` is the beginning of list `after`
IsPrefix(before, after) ==
  /\ Len(before) <= Len(after)
  /\ \A i \in 1..Len(before) : before[i] = after[i]

\* while the assistant is mounted the entries that exist stay as they are
\* and where they are
GrowsByAppending ==
  user' # NoUser => IsPrefix(messages.entries, messages'.entries)

AssistantEntries == {"prompt", "success", "failure"}

\* the entries of one input: the user's and, unless a write is awaited, the
\* assistant's one
InputAppended ==
  \E kind \in AssistantEntries :
    messages'.entries =
      (IF isLoading' THEN Append(messages.entries, "user")
       ELSE messages.entries \o <<"user", kind>>)

\* an input that is taken appends them; the end of the wait appends the
\* assistant's entry
OneEntryEach ==
  /\ \/ InputAppended
     \/ ~Sendable
     \/ ~\E m \in TranscriptInputs : processMessage(m)
  /\ isLoading /\ ~isLoading' /\ user' # NoUser =>
       \E kind \in AssistantEntries :
         messages'.entries = Append(messages.entries, kind)

\* after the greeting the entries come in pairs: the user's, then the
\* assistant's - which is missing only while the write is awaited
InPairs ==
  LET entries == messages.entries
  IN /\ \A i \in 1..Len(entries) :
          IF i % 2 = 1 THEN entries[i] \in AssistantEntries
          ELSE entries[i] = "user"
     /\ isLoading <=> Len(entries) > 0 /\ Len(entries) % 2 = 0

\* C29: the message list only grows by appending: no entry that exists is
\* modified, reordered or removed; and every input accepted by
\* processMessage appends one user entry followed, once its processing has
\* settled, by exactly one assistant entry.
C29_AppendOnlyTranscript ==
  [](InPairs) /\ [][GrowsByAppending /\ OneEntryEach]_vars

\* a booking was made through all its steps: the greeting, five questions
\* answered, and the confirmation with the report of the write
C29_Witness ==
  /\ lastMessage = "success" /\ ~isLoading
  /\ Len(messages.entries) = 13
  /\ messages.entries[12] = "user"

(***************************************************************************)
(* Properties of the list's join button.                                   *)
(***************************************************************************)
\* the session has no place left: it is closed, or the creator and the
\* participants are as many as its maximum
NoPlaceLeft(b) ==
  \/ b.session_type = "closed"
  \/ 1 + Cardinality(b.participants) >= b.max_players

\* the identity may join it
MayJoin(who, b) ==
  /\ b.session_type = "open"
  /\ ~IsCreator(who, b)
  /\ ~\E p \in b.participants : p.name = who.name /\ p.level = who.level
  /\ ~NoPlaceLeft(b)

JoinGating ==
  \A b \in dash :
    /\ isSessionFull(b) <=> NoPlaceLeft(b)
    /\ \A who \in Users : canJoin(who, b) <=> MayJoin(who, b)

JoinGated == \A b \in dash : ListJoin(b) => MayJoin(user, b)

\* C30: in the list view isSessionFull is true for every closed session and,
\* for an open one, exactly when 1 + its participant count >= max_players;
\* canJoin is true exactly when the session is open, the user is neither its
\* creator nor one of its participants (by name and level), and the session
\* is not full.
C30_ListJoinGating == [](JoinGating) /\ [][JoinGated]_vars

\* the user joined a session from the list and took its last place
C30_Witness ==
  \E b \in dash :
    /\ b.session_type = "open" /\ user \in b.participants
    /\ isSessionFull(b) /\ ~canJoin(user, b)
    /\ \E who \in Users : ~isUserInSession(who, b)

(***************************************************************************)
(* Properties of the generative assistant.                                 *)
(***************************************************************************)
AdvisorReplies == {"reply", "apology"}

\* an input is taken: the transcript grows by the input, and either by the
\* answer at once or the flag is set and the answer is awaited
AdvisorAccepts ==
  LET old == messages.entries
      new == messages'.entries
  IN /\ ~isLoading
     /\ Len(new) > Len(old)
     /\ \/ new = old \o <<"user", "reply">> /\ ~isLoading'
        \/ new = Append(old, "user") /\ isLoading' /\ pending' = ChatCall

\* the awaited answer: one assistant entry, and the flag is cleared
AdvisorAnswers ==
  /\ isLoading /\ pending = ChatCall
  /\ \E kind \in AdvisorReplies : messages'.entries = Append(messages.entries, kind)
  /\ ~isLoading'

\* steps that are no message: opening (with the greeting), closing, signing
\* in and out
AdvisorOther ==
  \/ messages' = messages /\ isLoading' = isLoading
  \/ messages'.entries = <<"prompt">> /\ ~hasGreeted /\ isLoading' = isLoading
  \/ user' = NoUser

\* C31: in the generative assistant every accepted message, answered or
\* failed, writes nothing to the bookings or the participants, adds exactly
\* one assistant entry (the reply, or the apology on failure), and ends with
\* the loading flag cleared, so that the next input is taken
C31_FreeTextFallback ==
  /\ [][(messages' # messages \/ isLoading' # isLoading)
          => /\ UNCHANGED storeVars
             /\ AdvisorAccepts \/ AdvisorAnswers \/ AdvisorOther]_vars
  /\ (isLoading ~> (~isLoading /\ (user # NoUser =>
                                    lastMessage \in AdvisorReplies)))

C31_Witness ==
  /\ ~isLoading /\ isOpen
  /\ Len(messages.entries) = 5
  /\ messages.entries[3] = "apology"
  /\ messages.entries[5] = "reply"
  /\ bookings # {}
  /\ ENABLED AdvisorSend(SayOther)

(***************************************************************************)
(* Properties of the booking form's submission.                            *)
(***************************************************************************)
\* the reservation the form would send lies over a reservation of its
\* existingBookings
OverSnapshot ==
  \E b \in dash :
    /\ b.date = selectedDate
    /\ Cells(form.startTime, form.duration)
         \cap Cells(b.start_time, b.duration) # {}

\* C32: whatever start times, durations and session types were selected
\* before, the reservation a submit of the booking form sends to the store
\* overlaps no reservation of the form's existingBookings
C32_SubmitRespectsSnapshot == [][FormSubmit => ~OverSnapshot]_vars

(***************************************************************************)
(* Properties of the draft.                                                *)
(***************************************************************************)
\* ask_action and the steps after it
FlowSteps ==
  { "ask_action", "confirm_join", "ask_session_type", "ask_max_players",
    "ask_duration", "confirm_booking" }

DraftDated == conversationStep \in FlowSteps => bookingState.date # Null

DraftToBook ==
  conversationStep = "confirm_booking" =>
    /\ bookingState.time # Null
    /\ bookingState.sessionType # None
    /\ bookingState.duration # Null
    /\ bookingState.maxPlayers # Null <=> bookingState.sessionType = "open"

DraftToJoin ==
  conversationStep = "confirm_join" =>
    /\ bookingState.bookingToJoin # NoBooking
    /\ bookingState.bookingToJoin.session_type = "open"
    /\ bookingState.bookingToJoin.date = bookingState.date
    /\ bookingState.bookingToJoin.start_time = bookingState.time

DraftDone ==
  conversationStep = "done" /\ lastMessage = "success" =>
    bookingState = EmptyState

\* C33: from ask_action on the draft has its date; at confirm_booking it has
\* time, session type and duration, and a maximum of players exactly when
\* the type is open; at confirm_join it has the session to join, an open one
\* on the draft's date at the draft's time; at done after a successful write
\* it is empty
C33_DraftCompleteness ==
  DraftDated /\ DraftToBook /\ DraftToJoin /\ DraftDone

(***************************************************************************)
(* Properties of the confirmed booking.                                    *)
(***************************************************************************)
\* what a stored reservation says in the summary's terms
Booked(b) ==
  [ date |-> b.date, start_time |-> b.start_time, duration |-> b.duration,
    session_type |-> b.session_type, max_players |-> b.max_players ]

\* C34: the reservation inserted on an affirmative answer at confirm_booking
\* has the date, start time, duration, session type and maximum of players
\* of the summary shown at confirm_booking
C34_SummaryEqualsWrite ==
  [][ \/ bookings' = bookings
      \/ conversationStep # "confirm_booking"
      \/ ~(\E m \in Inputs : AffirmsBooking(m) /\ handleConfirmBooking(m))
      \/ \A b \in bookings' \ bookings : Booked(b) = Summary(bookingState)
    ]_vars

\* the draft passes the CHECK constraints of public.bookings
DraftValid ==
  /\ bookingState.duration \in {1, 2}
  /\ bookingState.sessionType = "open" => bookingState.maxPlayers >= 2
  /\ bookingState.sessionType = "closed" => bookingState.maxPlayers = Null

\* the store's answer to a confirmed booking is no violated CHECK
NotRefused ==
  \/ conversationStep # "confirm_booking"
  \/ last'.outcome # "check_violation"
  \/ ~(\E m \in Inputs : AffirmsBooking(m) /\ handleConfirmBooking(m))

\* C35: every draft at confirm_booking has a duration of 1 or 2, at least
\* two players when open and no maximum of players when closed, and the
\* store refuses no confirmed booking for a violated constraint
C35_DraftsValid ==
  [](conversationStep = "confirm_booking" => DraftValid)
    /\ [][NotRefused]_vars

(***************************************************************************)
(* Properties of a declined join.                                          *)
(***************************************************************************)
\* back at ask_action on the same day, the session and its time forgotten
KeepsDay ==
  /\ conversationStep' = "ask_action"
  /\ bookingState'.date = bookingState.date
  /\ bookingState'.bookingToJoin = NoBooking
  /\ bookingState'.time = Null

\* C36: an answer at confirm_join that is not affirmative returns the
\* conversation to ask_action with the draft's date as it was at
\* confirm_join, today included, and with the session to join and the time
\* cleared
C36_DeclinedJoinKeepsDay ==
  [][ \/ conversationStep # "confirm_join"
      \/ KeepsDay
      \/ ~(\E m \in Inputs : ~AffirmsJoin(m) /\ handleConfirmJoin(m))
    ]_vars

(***************************************************************************)
(* Properties of the message that starts the conversation.                 *)
(***************************************************************************)
\* the deferred call is that of the first start: its render was before the
\* greeting
FirstMessage == timer # NoTimer /\ timer.closure.step = "greeting"

\* the message names a day with a slot left, for the render of the click
\* and for the present one
ResolvableDay ==
  LET targetDate == findDateByDayName(timer.message)
  IN /\ targetDate # Null
     /\ experienceSlots(timer.closure.bookings, targetDate) # {}
     /\ experienceSlots(assistantBookings, targetDate) # {}

\* what handleWhenResponse makes of such a day
HandledAsDay ==
  /\ conversationStep' = "ask_action"
  /\ bookingState'.date = findDateByDayName(timer.message)

\* C37: in FootballBookingExperience the message that starts the
\* conversation is handled after the greeting as an answer to ask_when: a
\* day with a slot left ("Today") leads to ask_action with the draft's date
\* set, as the same message does when it is the second input
C37_FirstMessageIsADay ==
  [][ \/ ~FirstMessage
      \/ ~ResolvableDay
      \/ HandledAsDay
      \/ ~TimerFires
    ]_vars

(***************************************************************************)
(* Properties of the slot enumeration.                                     *)
(***************************************************************************)
\* a call for the date of the call before returns the list returned before
SameAgain ==
  (availOut.calls > 0 /\ availOut'.date = availOut.date)
    => availOut'.slots = availOut.slots

====
